---- MODULE Spec2Model ----
(***************************************************************************)
(* Batch confirmation and shopping-state machine of the grocery bot.       *)
(*                                                                         *)
(* Two historical versions of the service coexist in the repository:       *)
(*   - the explicit-confirmation workflow (services/groceryService.js and  *)
(*     the callback handlers that call confirmItemFromBatch), checked      *)
(*     under Spec;                                                         *)
(*   - the auto-add workflow (cache-then-AI parsing, items persisted       *)
(*     directly as 'pending'), checked under SpecAuto.                     *)
(*                                                                         *)
(* The item store is the grocery_items table: a function from the live row *)
(* ids to rows.  Ids are AUTOINCREMENT, so an id is never reused.          *)
(* Every handler is one action; `last` records what the handler that ran   *)
(* last was given, the store it started from and what it answered.         *)
(***************************************************************************)
EXTENDS Integers, Sequences, FiniteSets, TLC

VARIABLES items, nextId, nextBatch, confirmButtons, shopButtons, cache, last,
          editButtons, sessions, clock, sessionLast, event, query,
          authorizedUsers, calls, cacheFile

\* what the handlers of the grocery list never touch: the edit keyboards of
\* the auto-add workflow, the sessions table and the time, the update being
\* dispatched, the callback query being answered, the configured list of
\* authorized users, the service calls that are between two awaits and the
\* document product_cache.json on the disk
side == <<editButtons, sessions, clock, sessionLast, event, query, authorizedUsers,
          calls, cacheFile>>

vars == <<items, nextId, nextBatch, confirmButtons, shopButtons, cache, last, side>>

(***************************************************************************)
(* Bounds of the model.                                                    *)
(***************************************************************************)
\* rows ever inserted into grocery_items
MaxItems == 2
\* text messages ever parsed into a batch
MaxBatches == 2
\* entries one AI response can hold
MaxEntries == 2
\* lines one text message can hold
MaxLines == 2

(***************************************************************************)
(* Data universes.                                                         *)
(***************************************************************************)
\* article names the AI returns; "Lait" and "lait" differ only in case
Names == {"lait", "Lait", "pain"}

\* the category labels in use (two of the fixed list)
CATEGORIES == <<"Boulangerie", "Produits laitiers">>

Categories == {CATEGORIES[k] : k \in 1..Len(CATEGORIES)}

Statuses == {"confirming", "pending", "selected", "found", "not_found"}

\* SQL LOWER(), as used by findByArticle
LOWER(s) == IF s = "Lait" THEN "lait" ELSE s

Min(S) == CHOOSE x \in S : \A y \in S : x <= y

\* the id a lookup returns when no row matches (JavaScript null)
Null == 0

(***************************************************************************)
(* models/GroceryItem.js: the store operations.  A store is a function     *)
(* from row ids to rows; every operation returns the new store.            *)
(***************************************************************************)
\* new GroceryItem(data): quantity defaults to 1 when falsy; the note column
\* is not among the fields of the object, and "" stands for its NULL
GroceryItem(article, quantity, category, status, batch_id) ==
    [article |-> article,
     quantity |-> IF quantity = 0 THEN 1 ELSE quantity,
     category |-> category,
     status |-> status,
     batch_id |-> batch_id,
     note |-> ""]

\* save() of an object without id: INSERT, the row gets the next id
saveNew(store, id, row) ==
    [i \in DOMAIN store \cup {id} |-> IF i = id THEN row ELSE store[i]]

\* save() of an object with an id: UPDATE ... WHERE id = ?
saveExisting(store, id, row) ==
    IF id \in DOMAIN store THEN [store EXCEPT ![id] = row] ELSE store

\* delete(): DELETE ... WHERE id = ?
delete(store, id) == [i \in DOMAIN store \ {id} |-> store[i]]

findById(store, id) == IF id \in DOMAIN store THEN id ELSE Null

\* SELECT * ... WHERE LOWER(article) = LOWER(?), first row of the scan
\* (rowid order: the table has no index on article)
findByArticle(store, article) ==
    LET m == {i \in DOMAIN store : LOWER(store[i].article) = LOWER(article)}
    IN  IF m = {} THEN Null ELSE Min(m)

findByStatus(store, status) == {i \in DOMAIN store : store[i].status = status}

findByBatchId(store, b) == {i \in DOMAIN store : store[i].batch_id = b}

findByBatchIdAndStatus(store, b, status) ==
    {i \in DOMAIN store : store[i].batch_id = b /\ store[i].status = status}

\* UPDATE ... SET status = ? WHERE id = ?
updateStatus(store, id, status) ==
    IF id \in DOMAIN store THEN [store EXCEPT ![id].status = status] ELSE store

\* DELETE ... WHERE status = ?
deleteByStatus(store, status) ==
    [i \in {j \in DOMAIN store : store[j].status # status} |-> store[i]]

(***************************************************************************)
(* services/aiService.js: the AI collaborator and the validation of its    *)
(* answer.  A raw response is what the model call produced: the call       *)
(* threw, the text was not JSON, the JSON was not an array, or an array of *)
(* entries whose article or category may be missing ("") or blank (" ").   *)
(***************************************************************************)
\* String.prototype.trim on the strings of the model
trim(s) == IF s = " " THEN "" ELSE s

\* the entries an AI response is made of: two spellings of one product with
\* different quantities and categories, another product, an article that is
\* blank and one that is missing, a category that is missing
RawEntries ==
    {[article |-> "lait", quantity |-> 1, category |-> "Produits laitiers"],
     [article |-> "Lait", quantity |-> 2, category |-> "Boulangerie"],
     [article |-> "pain", quantity |-> 0, category |-> "Boulangerie"],
     [article |-> " ", quantity |-> 1, category |-> "Boulangerie"],
     [article |-> "", quantity |-> 1, category |-> "Boulangerie"],
     [article |-> "pain", quantity |-> 1, category |-> ""]}

RawArrays ==
    UNION {[1..n -> RawEntries] : n \in 0..MaxEntries}

AIResponses ==
    {[kind |-> k, entries |-> <<>>] : k \in {"throw", "nonjson", "nonarray"}}
        \cup {[kind |-> "array", entries |-> a] : a \in RawArrays}

\* an entry the validation rejects: !item.article || !item.category
MissingFields(e) == e.article = "" \/ e.category = ""

\* the entry the validation returns: trimmed strings, parseInt(quantity) || 1
ValidatedItem(e) ==
    [article |-> trim(e.article),
     quantity |-> IF e.quantity = 0 THEN 1 ELSE e.quantity,
     category |-> trim(e.category)]

\* the responses on which the AI collaborator fails
AIFails(resp) ==
    resp.kind # "array" \/ \E k \in DOMAIN resp.entries : MissingFields(resp.entries[k])

\* a validation that drops what it cannot use instead of throwing
parseGroceryItemsLenient(resp) ==
    [threw |-> FALSE,
     items |-> IF resp.kind # "array" THEN <<>>
               ELSE [k \in DOMAIN SelectSeq(resp.entries, LAMBDA e : ~MissingFields(e)) |->
                        ValidatedItem(SelectSeq(resp.entries,
                                                LAMBDA e : ~MissingFields(e))[k])]]

\* parseGroceryItems: every failure ends in one thrown Error
parseGroceryItems(resp) ==
    IF AIFails(resp)
    THEN [threw |-> TRUE, items |-> <<>>]
    ELSE [threw |-> FALSE,
          items |-> [k \in DOMAIN resp.entries |-> ValidatedItem(resp.entries[k])]]

(***************************************************************************)
(* services/productCacheService.js: the product cache.  A line of text is  *)
(* the sequence of its whitespace-separated tokens (the blank line is the  *)
(* empty sequence); a product name is a sequence of tokens too.  The cache *)
(* is a function from normalized product names to entries.                 *)
(***************************************************************************)
\* the tokens made of digits only, and the tokens that are words
DigitTokens == {"0", "2"}

parseInt(t) == CASE t = "0" -> 0 [] t = "2" -> 2 [] OTHER -> 0

\* String.prototype.toLowerCase on the tokens of the model
toLowerCase(t) == IF t = "Lait" THEN "lait" ELSE t

\* the lines a message is made of: a blank line, the canonical name of a
\* cached product in another case, a variant with a quantity in front, a
\* product the cache does not know, and the same with a quantity behind
Lines ==
    {<<>>, <<"Lait">>, <<"2", "lai">>, <<"pain">>, <<"pain", "0">>}

Texts == UNION {[1..n -> Lines] : n \in 1..MaxLines}

\* the cache once product_cache.json holds one product with one variant
LaitCache ==
    [k \in {<<"lait">>} |->
        [correctName |-> "Lait", category |-> "Produits laitiers",
         variants |-> <<<<"lai">>>>, position |-> 1]]

EmptyCache == [k \in {} |-> 0]

Caches == {EmptyCache, LaitCache}

normalizeText(text) == [k \in DOMAIN text |-> toLowerCase(text[k])]

\* the second pattern tried before the first
parseLineQuantityLastFirst(line) ==
    IF Len(line) >= 2 /\ line[Len(line)] \in DigitTokens
    THEN [quantity |-> parseInt(line[Len(line)]),
          product |-> SubSeq(line, 1, Len(line) - 1)]
    ELSE IF Len(line) >= 2 /\ line[1] \in DigitTokens
    THEN [quantity |-> parseInt(line[1]), product |-> Tail(line)]
    ELSE [quantity |-> 1, product |-> line]

\* quantity first, else quantity last, else the whole line with quantity 1
parseLineForProduct(line) ==
    IF Len(line) >= 2 /\ line[1] \in DigitTokens
    THEN [quantity |-> parseInt(line[1]), product |-> Tail(line)]
    ELSE IF Len(line) >= 2 /\ line[Len(line)] \in DigitTokens
    THEN [quantity |-> parseInt(line[Len(line)]),
          product |-> SubSeq(line, 1, Len(line) - 1)]
    ELSE [quantity |-> 1, product |-> line]

\* a lookup that knows the canonical names only
findProductByName(c, productName) ==
    IF normalizeText(productName) \in DOMAIN c
    THEN {normalizeText(productName)} ELSE {}

\* Array.prototype.includes on a list of variants
includes(list, x) == \E k \in DOMAIN list : list[k] = x

\* the property names every object literal answers through Object.prototype,
\* in lower case as normalizeText leaves them: this.cache[name] is truthy
\* for them although the cache has no such key
ObjectPrototype == {<<"constructor">>}

\* the keys of the entries that list the text as a variant, and the first
\* of them in the order of Object.entries
holders(c, normalized) ==
    {key \in DOMAIN c : includes(c[key].variants, normalized)}

firstHolder(c, normalized) ==
    CHOOSE key \in holders(c, normalized) :
        \A other \in holders(c, normalized) :
            c[key].position <= c[other].position

\* a lookup that answers with the last entry listing the variant
findProductLastHolder(c, productName) ==
    LET normalized == normalizeText(productName) IN
    IF normalized \in DOMAIN c \/ normalized \in ObjectPrototype
    THEN {normalized}
    ELSE IF holders(c, normalized) = {} THEN {}
    ELSE {CHOOSE key \in holders(c, normalized) :
            \A other \in holders(c, normalized) :
                c[key].position >= c[other].position}

\* the key whose value answers a lookup: the name itself when
\* this.cache[name] is truthy, else the first entry that lists it as a
\* variant; the empty set is JavaScript null
findProduct(c, productName) ==
    LET normalized == normalizeText(productName) IN
    IF normalized \in DOMAIN c \/ normalized \in ObjectPrototype
    THEN {normalized}
    ELSE IF holders(c, normalized) = {} THEN {}
    ELSE {firstHolder(c, normalized)}

\* the non-blank lines of a text
nonBlankLines(text) == SelectSeq(text, LAMBDA line : line # <<>>)

RECURSIVE parseLines(_, _)
parseLines(c, lines) ==
    IF lines = <<>> THEN [cachedItems |-> <<>>, unparsedLines |-> <<>>]
    ELSE LET line == Head(lines)
             parsedLine == parseLineForProduct(line)
             cachedProduct == findProduct(c, parsedLine.product)
             rest == parseLines(c, Tail(lines))
         IN  IF cachedProduct # {}
             THEN LET key == CHOOSE k \in cachedProduct : TRUE
                      product == IF key \in DOMAIN c THEN c[key]
                                 ELSE [correctName |-> "", category |-> ""]
                  IN
                  [cachedItems |->
                      <<[article |-> product.correctName,
                         quantity |-> parsedLine.quantity,
                         category |-> product.category,
                         originalInput |-> line]>> \o rest.cachedItems,
                   unparsedLines |-> rest.unparsedLines]
             ELSE [cachedItems |-> rest.cachedItems,
                   unparsedLines |-> <<line>> \o rest.unparsedLines]

parseWithCache(c, groceryText) == parseLines(c, nonBlankLines(groceryText))

(***************************************************************************)
(* services/groceryService.js: the explicit-confirmation service.          *)
(***************************************************************************)
\* the loop of parseItemsForConfirmation: one row per parsed entry that has
\* an article and a category, saved in order; returns the store and the ids
RECURSIVE createItems(_, _, _, _, _)
createItems(store, parsed, id, status, batchId) ==
    IF parsed = <<>> THEN [store |-> store, ids |-> {}]
    ELSE LET newItem == Head(parsed) IN
         IF newItem.article = "" \/ newItem.category = ""
         THEN createItems(store, Tail(parsed), id, status, batchId)
         ELSE LET rest == createItems(
                      saveNew(store, id,
                              GroceryItem(newItem.article, newItem.quantity,
                                          newItem.category, status, batchId)),
                      Tail(parsed), id + 1, status, batchId)
              IN  [store |-> rest.store, ids |-> rest.ids \cup {id}]

\* number of parsed entries skipped for a missing article or category
skippedCount(parsed) ==
    Cardinality({k \in DOMAIN parsed :
                    parsed[k].article = "" \/ parsed[k].category = ""})

\* a merge that keeps the status of the existing row
mergedItemKeepStatus(existingItem, tempItem) ==
    [existingItem EXCEPT
        !.quantity = existingItem.quantity + tempItem.quantity,
        !.category = tempItem.category,
        !.batch_id = tempItem.batch_id]

\* the existing row after a merge: quantities added, category and batch of
\* the incoming item, 'found' and 'not_found' reset to 'pending'
mergedItem(existingItem, tempItem) ==
    [existingItem EXCEPT
        !.quantity = existingItem.quantity + tempItem.quantity,
        !.category = tempItem.category,
        !.batch_id = tempItem.batch_id,
        !.status = IF existingItem.status \in {"not_found", "found"}
                   THEN "pending" ELSE existingItem.status]

\* the test that sends a confirmation down the merge path
shouldMerge(store, existingItem, tempItem) ==
    existingItem # Null /\ store[existingItem].batch_id # store[tempItem].batch_id

\* what a call of a service method produced: the store it left, whether it
\* threw, the id of the item it returned and the row it merged into
Outcome(store, threw, ret, target) ==
    [store |-> store, threw |-> threw, ret |-> ret, target |-> target]

\* a confirmation that does not look at the status of the item
confirmItemFromBatchAnyStatus(store, itemId) ==
    LET tempItem == findById(store, itemId) IN
    IF tempItem = Null THEN Outcome(store, TRUE, Null, Null)
    ELSE LET existingItem == findByArticle(store, store[tempItem].article) IN
         IF shouldMerge(store, existingItem, tempItem)
         THEN Outcome(
                 delete(saveExisting(store, existingItem,
                                     mergedItem(store[existingItem], store[tempItem])),
                        tempItem),
                 FALSE, existingItem, existingItem)
         ELSE Outcome(
                 saveExisting(store, tempItem,
                              [store[tempItem] EXCEPT !.status = "pending"]),
                 FALSE, tempItem, Null)

confirmItemFromBatch(store, itemId) ==
    LET tempItem == findById(store, itemId) IN
    IF tempItem = Null THEN Outcome(store, TRUE, Null, Null)
    ELSE IF store[tempItem].status # "confirming"
    THEN IF store[tempItem].status = "pending"
         THEN Outcome(store, FALSE, tempItem, Null)
         ELSE Outcome(store, TRUE, Null, Null)
    ELSE LET existingItem == findByArticle(store, store[tempItem].article) IN
         IF shouldMerge(store, existingItem, tempItem)
         THEN Outcome(
                 delete(saveExisting(store, existingItem,
                                     mergedItem(store[existingItem], store[tempItem])),
                        tempItem),
                 FALSE, existingItem, existingItem)
         ELSE Outcome(
                 saveExisting(store, tempItem,
                              [store[tempItem] EXCEPT !.status = "pending"]),
                 FALSE, tempItem, Null)

\* a cancellation that takes every row of the batch
cancelBatchItemsAnyStatus(store, batchId) == findByBatchId(store, batchId)

\* the rows cancelBatch deletes: the batch's rows still 'confirming'
cancelBatchItems(store, batchId) ==
    findByBatchIdAndStatus(store, batchId, "confirming")

cancelBatch(store, batchId) ==
    LET remainingItems == cancelBatchItems(store, batchId) IN
    [store |-> [i \in DOMAIN store \ remainingItems |-> store[i]],
     deletedCount |-> Cardinality(remainingItems)]

\* getAllItemsSorted: the rows shown as active are all but the 'found' ones
activeItems(store) == {i \in DOMAIN store : store[i].status # "found"}

foundItems(store) == {i \in DOMAIN store : store[i].status = "found"}

clearFoundItems(store) == deleteByStatus(store, "found")

\* a reset that takes the found items along with the selected ones
clearSelectionAndFound(store) ==
    [i \in DOMAIN store |->
        IF store[i].status \in {"selected", "found"}
        THEN [store[i] EXCEPT !.status = "pending"] ELSE store[i]]

clearSelection(store) ==
    [i \in DOMAIN store |->
        IF i \in findByStatus(store, "selected")
        THEN [store[i] EXCEPT !.status = "pending"] ELSE store[i]]

\* GroceryItem.findAll: the ids of the rows, latest first
RECURSIVE findAll(_)
findAll(store) ==
    IF DOMAIN store = {} THEN <<>>
    ELSE LET latest == CHOOSE i \in DOMAIN store : \A j \in DOMAIN store : j <= i
         IN  <<latest>> \o findAll([i \in DOMAIN store \ {latest} |-> store[i]])

\* the place of a category in the order localeCompare gives the lower-cased
\* labels; a missing category ('') comes first
collate(category) ==
    CASE category = "" -> 0
      [] category = "Boulangerie" -> 1
      [] category = "Produits laitiers" -> 2
      [] OTHER -> 3

\* Array.prototype.sort by category: stable, items of one category keep
\* their order
RECURSIVE sortByCategory(_, _)
sortByCategory(store, ids) ==
    IF ids = <<>> THEN <<>>
    ELSE LET rest == sortByCategory(store, Tail(ids))
             before(i) == collate(store[i].category) < collate(store[Head(ids)].category)
         IN  SelectSeq(rest, before) \o <<Head(ids)>>
                 \o SelectSeq(rest, LAMBDA i : ~before(i))

\* the key an item is grouped under
groupKey(store, i) ==
    IF store[i].category = "" THEN "Sans catégorie" ELSE store[i].category

groupItemsByCategory(store, ids) ==
    [category \in {groupKey(store, ids[k]) : k \in DOMAIN ids} |->
        SelectSeq(ids, LAMBDA i : groupKey(store, i) = category)]

\* a listing that sorts and groups every row, found or not
getAllItemsUnfiltered(store) ==
    [allItems |-> findAll(store),
     activeItems |-> sortByCategory(store, findAll(store)),
     foundItems |-> SelectSeq(findAll(store), LAMBDA i : store[i].status = "found"),
     grouped |-> groupItemsByCategory(store, sortByCategory(store, findAll(store)))]

\* getAllItemsSorted: the found rows apart, the others sorted by category and
\* grouped; each list is a sequence of row ids
getAllItemsSorted(store) ==
    LET allItems == findAll(store)
        active == sortByCategory(store,
                     SelectSeq(allItems, LAMBDA i : store[i].status # "found"))
    IN  [allItems |-> allItems,
         activeItems |-> active,
         foundItems |-> SelectSeq(allItems, LAMBDA i : store[i].status = "found"),
         grouped |-> groupItemsByCategory(store, active)]

(***************************************************************************)
(* handlers/commandHandlers.js: the category shopping keyboard.            *)
(***************************************************************************)
\* the status a button of the keyboard asks for, from the status shown
nextStatus(status) ==
    CASE status = "selected" -> "found"
      [] status = "not_found" -> "pending"
      [] OTHER -> "selected"

\* one button per active item of the category: <<item id, next status>>
createCategoryShoppingKeyboard(store, selectedCategory) ==
    {<<i, nextStatus(store[i].status)>> :
        i \in {j \in activeItems(store) : store[j].category = selectedCategory}}

(***************************************************************************)
(* The record of the handler that ran last.                                *)
(*   op      the callback action or message kind handled                   *)
(*   batch   the batch id of the request (Null when it has none)           *)
(*   id      the item id of the request (Null when it has none)            *)
(*   status  the status an item-status button asked for ("" otherwise)     *)
(*   pre     the store when the handler started                            *)
(*   ack     what the user was answered                                    *)
(*   called  whether the handler invoked confirmItemFromBatch              *)
(*   ret     the id of the item the service returned (Null: none)          *)
(*   target  the id of the row a confirmation merged into (Null: none)     *)
(*   count   the number the service returned, or of rows created           *)
(*   lines   the non-blank lines of the text parsed                        *)
(*   skipped the parsed entries dropped for a missing name or category     *)
(*   hits    the lines of the text the product cache resolved              *)
(*   ai      "none": the AI was not called, "ok": it answered a valid      *)
(*           array, "failed": the call failed                              *)
(*   asked   the requests the cache-then-AI parse sent to the AI, each the *)
(*           sequence of lines it held                                     *)
(*   given   the category, quantity and note an edit was called with       *)
(***************************************************************************)
Handled(op, batch, id, status, pre, ack, called, ret, target, count) ==
    [op |-> op, batch |-> batch, id |-> id, status |-> status, pre |-> pre,
     ack |-> ack, called |-> called, ret |-> ret, target |-> target,
     count |-> count, lines |-> 0, skipped |-> 0, hits |-> 0, ai |-> "none",
     asked |-> <<>>, given |-> [category |-> "", quantity |-> 0, note |-> ""]]

EmptyStore == [i \in {} |-> 0]

\* no update has been dispatched yet
NoUser == [username |-> "", first_name |-> ""]

NoEvent == [user |-> NoUser, refused |-> FALSE, text |-> <<>>]

\* no session stored, no callback query in flight
InitSide ==
    /\ editButtons = {}
    /\ sessions = [i \in {} |-> 0]
    /\ clock = 0
    /\ sessionLast = [op |-> "start", id |-> 0, at |-> 0, found |-> FALSE,
                     expires_at |-> <<>>]
    /\ query = [action |-> "", stack |-> <<>>, answers |-> 0, received |-> 0]
    /\ calls = <<>>

Init ==
    /\ InitSide
    /\ event = NoEvent
    /\ authorizedUsers = {}
    /\ cache = EmptyCache
    /\ cacheFile = cache
    /\ items = EmptyStore
    /\ nextId = 1
    /\ nextBatch = 1
    /\ confirmButtons = {}
    /\ shopButtons = {}
    /\ last = Handled("start", Null, Null, "", EmptyStore, "", FALSE, Null, Null, 0)

\* the confirm / change-category buttons of a batch keyboard
createBatchConfirmationKeyboard(batchId, ids) == {<<batchId, i>> : i \in ids}

(***************************************************************************)
(* Explicit-confirmation workflow: the text-message handler.               *)
(***************************************************************************)
HandleTextMessage(resp) ==
    LET parsed == parseGroceryItems(resp)
        made == createItems(items, parsed.items, nextId, "confirming", nextBatch)
        n == Cardinality(made.ids)
    IN  /\ nextBatch <= MaxBatches
        /\ nextId + n - 1 <= MaxItems
        /\ IF parsed.threw
           THEN /\ UNCHANGED <<cache, side, items, nextId, nextBatch, confirmButtons>>
                /\ last' = [Handled("message", Null, Null, "", items,
                                    "parse_error", FALSE, Null, Null, 0)
                               EXCEPT !.ai = "failed"]
           ELSE /\ items' = made.store
                /\ nextId' = nextId + n
                /\ nextBatch' = nextBatch + 1
                /\ confirmButtons' = confirmButtons \cup
                       createBatchConfirmationKeyboard(nextBatch, made.ids)
                /\ last' = [Handled("message", nextBatch, Null, "", items,
                                    IF n = 0 THEN "no_items" ELSE "ok",
                                    FALSE, Null, Null, n)
                               EXCEPT !.ai = "ok",
                                      !.skipped = skippedCount(parsed.items)]
        /\ UNCHANGED <<shopButtons, cache, side>>

(***************************************************************************)
(* Explicit-confirmation workflow: the callback handlers.                  *)
(***************************************************************************)
\* a guard that only looks the item up
belongsToAnyBatch(store, batchId, itemId) == findById(store, itemId) # Null

\* the guard of handleConfirmItem: the item exists and carries the batch id
belongsToBatch(store, batchId, itemId) ==
    findById(store, itemId) # Null /\ store[itemId].batch_id = batchId

HandleConfirmItem(batchId, itemId) ==
    IF ~belongsToBatch(items, batchId, itemId)
    THEN /\ last' = Handled("confirm_item", batchId, itemId, "", items,
                            "not_found", FALSE, Null, Null, 0)
         /\ UNCHANGED <<cache, side, items, nextId, nextBatch, confirmButtons, shopButtons>>
    ELSE LET out == confirmItemFromBatch(items, itemId) IN
         /\ items' = out.store
         /\ confirmButtons' =
                IF out.threw THEN confirmButtons
                ELSE confirmButtons \cup createBatchConfirmationKeyboard(
                        batchId, findByBatchIdAndStatus(out.store, batchId, "confirming"))
         /\ last' = Handled("confirm_item", batchId, itemId, "", items,
                            IF out.threw THEN "error" ELSE "ok",
                            TRUE, out.ret, out.target, 0)
         /\ UNCHANGED <<cache, side, nextId, nextBatch, shopButtons>>

HandleCancelBatch(batchId) ==
    LET out == cancelBatch(items, batchId) IN
    /\ items' = out.store
    /\ last' = Handled("cancel_batch", batchId, Null, "", items, "ok",
                       FALSE, Null, Null, out.deletedCount)
    /\ UNCHANGED <<cache, side, nextId, nextBatch, confirmButtons, shopButtons>>

HandleUpdateCategoryByIndex(batchId, itemId, categoryIndex) ==
    IF categoryIndex < 0 \/ categoryIndex >= Len(CATEGORIES)
    THEN /\ last' = Handled("upd_cat", batchId, itemId, "", items,
                            "invalid", FALSE, Null, Null, 0)
         /\ UNCHANGED <<cache, side, items, nextId, nextBatch, confirmButtons, shopButtons>>
    ELSE IF ~belongsToBatch(items, batchId, itemId)
    THEN /\ last' = Handled("upd_cat", batchId, itemId, "", items,
                            "not_found", FALSE, Null, Null, 0)
         /\ UNCHANGED <<cache, side, items, nextId, nextBatch, confirmButtons, shopButtons>>
    ELSE /\ items' = saveExisting(items, itemId,
                [items[itemId] EXCEPT !.category = CATEGORIES[categoryIndex + 1]])
         /\ confirmButtons' = confirmButtons \cup createBatchConfirmationKeyboard(
                batchId, findByBatchIdAndStatus(items', batchId, "confirming"))
         /\ last' = Handled("upd_cat", batchId, itemId, "", items, "ok",
                            FALSE, itemId, Null, 0)
         /\ UNCHANGED <<cache, side, nextId, nextBatch, shopButtons>>

HandleShopCategory(category) ==
    /\ shopButtons' = shopButtons \cup createCategoryShoppingKeyboard(items, category)
    /\ last' = Handled("shop-category", Null, Null, "", items, "ok",
                       FALSE, Null, Null, 0)
    /\ UNCHANGED <<cache, side, items, nextId, nextBatch, confirmButtons>>

\* a tap on an item button of a message showing `category`; whether the
\* header of the message is recognised (categoryMatch) decides which view is
\* rendered next
HandleItemStatus(itemId, newStatus, category, categoryMatch) ==
    LET success == findById(items, itemId) # Null IN
    /\ items' = updateStatus(items, itemId, newStatus)
    /\ shopButtons' =
           IF success /\ categoryMatch
           THEN shopButtons \cup createCategoryShoppingKeyboard(items', category)
           ELSE shopButtons
    /\ last' = Handled("item-status", Null, itemId, newStatus, items,
                       IF success THEN "ok" ELSE "failed", FALSE, Null, Null, 0)
    /\ UNCHANGED <<cache, side, nextId, nextBatch, confirmButtons>>

HandleClearFound ==
    /\ items' = clearFoundItems(items)
    /\ last' = Handled("clear-found", Null, Null, "", items, "ok", FALSE, Null, Null,
                       Cardinality(foundItems(items)))
    /\ UNCHANGED <<cache, side, nextId, nextBatch, confirmButtons, shopButtons>>

HandleClearSelection ==
    /\ items' = clearSelection(items)
    /\ last' = Handled("clear-selection", Null, Null, "", items, "ok", FALSE, Null,
                       Null, Cardinality(findByStatus(items, "selected")))
    /\ UNCHANGED <<cache, side, nextId, nextBatch, confirmButtons, shopButtons>>

Next ==
    \/ \E resp \in AIResponses : HandleTextMessage(resp)
    \/ \E b \in confirmButtons : HandleConfirmItem(b[1], b[2])
    \/ \E b \in confirmButtons : HandleCancelBatch(b[1])
    \/ \E b \in confirmButtons, k \in 0..(Len(CATEGORIES) - 1) :
            HandleUpdateCategoryByIndex(b[1], b[2], k)
    \/ \E c \in Categories : HandleShopCategory(c)
    \/ \E b \in shopButtons, c \in Categories, m \in BOOLEAN :
            HandleItemStatus(b[1], b[2], c, m)
    \/ HandleClearFound
    \/ HandleClearSelection

Spec == Init /\ [][Next]_vars

(***************************************************************************)
(* Auto-add workflow: the service and the handlers that differ from the    *)
(* explicit-confirmation ones.                                             *)
(***************************************************************************)
\* a cancellation that spares the rows the shopper has already touched
cancelBatchPendingOnly(store, batchId) ==
    LET batchItems == findByBatchIdAndStatus(store, batchId, "pending") IN
    [store |-> [i \in DOMAIN store \ batchItems |-> store[i]],
     deletedCount |-> Cardinality(batchItems)]

\* cancelBatch of the auto-add service: every row of the batch goes
cancelBatchAutoAdd(store, batchId) ==
    LET batchItems == findByBatchId(store, batchId) IN
    [store |-> [i \in DOMAIN store \ batchItems |-> store[i]],
     deletedCount |-> Cardinality(batchItems)]

\* an AI result gets the miss line at its index as original input, and
\* the text of its own article where the miss lines have run out
withOriginalInput(item, index, unparsedLines) ==
    [article |-> item.article, quantity |-> item.quantity,
     category |-> item.category,
     originalInput |-> IF index <= Len(unparsedLines)
                       THEN unparsedLines[index] ELSE <<item.article>>]

\* a combination that puts the AI results before the cache hits
combineParsedAIFirst(fromCache, geminiItems) ==
    [index \in DOMAIN geminiItems |->
        withOriginalInput(geminiItems[index], index, fromCache.unparsedLines)]
    \o fromCache.cachedItems

\* steps 2 and 3 of parseItemsForConfirmation: the list to add is the
\* cached items followed by the AI results with their original input
combineParsed(fromCache, geminiItems) ==
    fromCache.cachedItems
    \o [index \in DOMAIN geminiItems |->
           withOriginalInput(geminiItems[index], index, fromCache.unparsedLines)]

\* the edit buttons of an auto-add keyboard
createAutoAddKeyboard(batchId, ids) == {<<batchId, i>> : i \in ids}

\* handleTextMessage with the cache-then-AI parseItemsForConfirmation: the AI
\* is called only when a line missed the cache, and nothing is saved before
\* its answer has been validated
HandleTextMessageAutoAdd(groceryText, resp) ==
    LET fromCache == parseWithCache(cache, groceryText)
        called == fromCache.unparsedLines # <<>>
        geminiItems == IF called THEN parseGroceryItems(resp)
                       ELSE [threw |-> FALSE, items |-> <<>>]
        parsedItems == combineParsed(fromCache, geminiItems.items)
        made == createItems(items, parsedItems, nextId, "pending", nextBatch)
        n == Cardinality(made.ids)
        answered(batch, ack, count, skipped) ==
            [Handled("message", batch, Null, "", items, ack, FALSE, Null, Null, count)
                EXCEPT !.lines = Len(nonBlankLines(groceryText)),
                       !.skipped = skipped,
                       !.hits = Len(fromCache.cachedItems),
                       !.asked = IF called THEN <<fromCache.unparsedLines>> ELSE <<>>,
                       !.ai = IF ~called THEN "none"
                              ELSE IF AIFails(resp) THEN "failed" ELSE "ok"]
    IN  /\ nextBatch <= MaxBatches
        /\ nextId + n - 1 <= MaxItems
        /\ IF geminiItems.threw
           THEN /\ UNCHANGED <<items, nextId, nextBatch, confirmButtons>>
                /\ last' = answered(Null, "parse_error", 0, 0)
           ELSE /\ items' = made.store
                /\ nextId' = nextId + n
                /\ nextBatch' = nextBatch + 1
                /\ confirmButtons' =
                       confirmButtons \cup createAutoAddKeyboard(nextBatch, made.ids)
                /\ last' = answered(nextBatch, IF n = 0 THEN "no_items" ELSE "ok",
                                    n, skippedCount(parsedItems))
        /\ UNCHANGED <<shopButtons, cache, side>>

\* handleConfirmItem of the auto-add handlers: the same guard, then only an
\* acknowledgement and a fresh keyboard
HandleConfirmItemAutoAdd(batchId, itemId) ==
    /\ last' = Handled("confirm_item", batchId, itemId, "", items,
                       IF belongsToBatch(items, batchId, itemId)
                       THEN "already_added" ELSE "not_found",
                       FALSE, Null, Null, 0)
    /\ confirmButtons' =
           IF belongsToBatch(items, batchId, itemId)
           THEN confirmButtons \cup
                   createAutoAddKeyboard(batchId, findByBatchId(items, batchId))
           ELSE confirmButtons
    /\ UNCHANGED <<cache, side, items, nextId, nextBatch, shopButtons>>

HandleCancelBatchAutoAdd(batchId) ==
    LET out == cancelBatchAutoAdd(items, batchId) IN
    /\ items' = out.store
    /\ last' = Handled("cancel_batch", batchId, Null, "", items, "ok",
                       FALSE, Null, Null, out.deletedCount)
    /\ UNCHANGED <<cache, side, nextId, nextBatch, confirmButtons, shopButtons>>

\* the auto-add bot starts with whatever product_cache.json holds
InitAutoAdd ==
    /\ InitSide
    /\ event = NoEvent
    /\ authorizedUsers = {}
    /\ cache \in Caches
    /\ cacheFile = cache
    /\ items = EmptyStore
    /\ nextId = 1
    /\ nextBatch = 1
    /\ confirmButtons = {}
    /\ shopButtons = {}
    /\ last = Handled("start", Null, Null, "", EmptyStore, "", FALSE, Null, Null, 0)

\* what the AI may answer to a text: nothing is asked of it, and so a single
\* outcome is considered, when every line is resolved by the cache
AIResponsesTo(c, groceryText) ==
    IF parseWithCache(c, groceryText).unparsedLines = <<>>
    THEN {[kind |-> "throw", entries |-> <<>>]}
    ELSE AIResponses

\* the messages the workflow is driven with: one line, which the cache may
\* know or not; the AI fails, or returns one entry (every text and every
\* answer is explored under SpecParse)
OneLineTexts == {<<<<"lai">>>>, <<<<"pain">>>>}

OneEntryResponses(c, groceryText) ==
    IF parseWithCache(c, groceryText).unparsedLines = <<>>
    THEN {[kind |-> "throw", entries |-> <<>>]}
    ELSE {[kind |-> "throw", entries |-> <<>>],
          [kind |-> "array",
           entries |-> <<[article |-> "pain", quantity |-> 1,
                          category |-> "Boulangerie"]>>]}

NextAutoAdd ==
    \/ \E groceryText \in OneLineTexts :
          \E resp \in OneEntryResponses(cache, groceryText) :
             HandleTextMessageAutoAdd(groceryText, resp)
    \/ \E batchId \in 1..MaxBatches, itemId \in 1..MaxItems :
            HandleConfirmItemAutoAdd(batchId, itemId)
    \/ \E b \in confirmButtons : HandleCancelBatchAutoAdd(b[1])
    \/ \E c \in Categories : HandleShopCategory(c)
    \/ \E b \in shopButtons, c \in Categories, m \in BOOLEAN :
            HandleItemStatus(b[1], b[2], c, m)

SpecAuto == InitAutoAdd /\ [][NextAutoAdd]_vars

(***************************************************************************)
(* The cache-then-AI parse applied to one text: the text of the update is  *)
(* drawn at the start, together with the cache, and parseItemsForConfirmation *)
(* is applied to it (again after a failure, and once more after a success) *)
(* with whatever the AI answers.                                           *)
(***************************************************************************)
InitParse ==
    /\ InitSide
    /\ event \in {[NoEvent EXCEPT !.text = t] : t \in Texts}
    /\ authorizedUsers = {}
    /\ cache \in Caches
    /\ cacheFile = cache
    /\ items = EmptyStore
    /\ nextId = 1
    /\ nextBatch = 1
    /\ confirmButtons = {}
    /\ shopButtons = {}
    /\ last = Handled("start", Null, Null, "", EmptyStore, "", FALSE, Null, Null, 0)

ParseItemsForConfirmation(resp) == HandleTextMessageAutoAdd(event.text, resp)

NextParse ==
    \E resp \in AIResponsesTo(cache, event.text) : ParseItemsForConfirmation(resp)

SpecParse == InitParse /\ [][NextParse]_vars

(***************************************************************************)
(* Auto-add workflow: editing the items of the list.  The edit interface   *)
(* is one message whose keyboard carries, in the callback data of its      *)
(* buttons, the values an edit will be called with.                        *)
(***************************************************************************)
\* the largest quantity the + button is followed to
MaxQty == 1

\* the notes a caller of editItem passes
Notes == {"", "bio"}

\* GroceryItem.findById: the row as the constructor rebuilds it (the quantity
\* defaults to 1 when falsy, no note is copied)
readItem(store, itemId) ==
    GroceryItem(store[itemId].article, store[itemId].quantity,
                store[itemId].category, store[itemId].status,
                store[itemId].batch_id)

\* editItem: throws when the item is not found; else category and quantity
\* are assigned and save() runs its UPDATE, which has no note column in its
\* SET list; the note lives on the returned object only
editItem(store, itemId, newCategory, newQuantity, newNote) ==
    IF findById(store, itemId) = Null
    THEN [threw |-> TRUE, store |-> store]
    ELSE [threw |-> FALSE,
          store |-> saveExisting(store, itemId,
                        [store[itemId] EXCEPT !.category = newCategory,
                                              !.quantity = newQuantity])]

Max(a, b) == IF a >= b THEN a ELSE b

\* createEditKeyboard: a category button per category, the - and + buttons,
\* the save button; every button carries the note of the item
createEditKeyboard(itemId, currentCategory, currentQuantity, currentNote) ==
    {[action |-> "update_item", itemId |-> itemId, category |-> c,
      quantity |-> currentQuantity, note |-> currentNote] : c \in Categories}
    \cup
    {[action |-> "update_qty", itemId |-> itemId, category |-> currentCategory,
      quantity |-> q, note |-> currentNote] :
         q \in {Max(1, currentQuantity - 1), currentQuantity + 1}}
    \cup
    {[action |-> "save_edit", itemId |-> itemId, category |-> currentCategory,
      quantity |-> currentQuantity, note |-> currentNote]}

\* the keyboard of the edit interface of an item as it is read from the store
editKeyboardOf(store, itemId) ==
    createEditKeyboard(itemId, readItem(store, itemId).category,
                       readItem(store, itemId).quantity,
                       readItem(store, itemId).note)

\* what an edit leaves in `last`
Edited(op, itemId, newCategory, newQuantity, newNote, threw) ==
    [Handled(op, Null, itemId, "", items, IF threw THEN "error" ELSE "ok",
             TRUE, IF threw THEN Null ELSE itemId, Null, 0)
        EXCEPT !.given = [category |-> newCategory, quantity |-> newQuantity,
                          note |-> newNote]]

\* groceryService.editItem called with a note (handleNoteUpdate passes the
\* text of a message)
EditItem(itemId, newCategory, newQuantity, newNote) ==
    LET out == editItem(items, itemId, newCategory, newQuantity, newNote) IN
    /\ items' = out.store
    /\ last' = Edited("edit_item", itemId, newCategory, newQuantity, newNote,
                      out.threw)
    /\ UNCHANGED <<nextId, nextBatch, confirmButtons, shopButtons, cache,
                   editButtons, sessions, clock, sessionLast, event, query,
                   authorizedUsers, calls, cacheFile>>

\* a tap on an Edit button of an auto-add keyboard: the edit interface of the
\* item is sent
HandleEditItem(itemId, batchId) ==
    /\ editButtons' = IF findById(items, itemId) = Null THEN editButtons
                      ELSE editKeyboardOf(items, itemId)
    /\ last' = Handled("open_edit", batchId, itemId, "", items,
                       IF findById(items, itemId) = Null THEN "error" ELSE "ok",
                       FALSE, Null, Null, 0)
    /\ UNCHANGED <<items, nextId, nextBatch, confirmButtons, shopButtons, cache,
                   sessions, clock, sessionLast, event, query,
                   authorizedUsers, calls, cacheFile>>

\* a tap on a category button or on - / + of the edit interface: the item is
\* edited and the keyboard of the message is replaced
HandleUpdateItem(b) ==
    LET out == editItem(items, b.itemId, b.category, b.quantity, b.note) IN
    /\ b.action \in {"update_item", "update_qty"}
    /\ b.quantity <= MaxQty
    /\ items' = out.store
    /\ editButtons' = IF out.threw THEN editButtons
                      ELSE editKeyboardOf(out.store, b.itemId)
    /\ last' = Edited(b.action, b.itemId, b.category, b.quantity, b.note,
                      out.threw)
    /\ UNCHANGED <<nextId, nextBatch, confirmButtons, shopButtons, cache,
                   sessions, clock, sessionLast, event, query,
                   authorizedUsers, calls, cacheFile>>

\* a tap on Save: the item is edited and the edit message deleted
HandleSaveEdit(b) ==
    LET out == editItem(items, b.itemId, b.category, b.quantity, b.note) IN
    /\ b.action = "save_edit"
    /\ items' = out.store
    /\ editButtons' = IF out.threw THEN editButtons ELSE {}
    /\ last' = Edited("save_edit", b.itemId, b.category, b.quantity, b.note,
                      out.threw)
    /\ UNCHANGED <<nextId, nextBatch, confirmButtons, shopButtons, cache,
                   sessions, clock, sessionLast, event, query,
                   authorizedUsers, calls, cacheFile>>

\* the answers of the AI to a line the cache does not know: as above, or one
\* entry with a negative quantity
EditResponses(c, groceryText) ==
    OneEntryResponses(c, groceryText) \cup
        IF parseWithCache(c, groceryText).unparsedLines = <<>> THEN {}
        ELSE {[kind |-> "array",
               entries |-> <<[article |-> "pain", quantity |-> -1,
                              category |-> "Boulangerie"]>>]}

NextEdit ==
    \/ \E groceryText \in OneLineTexts :
          \E resp \in EditResponses(cache, groceryText) :
             HandleTextMessageAutoAdd(groceryText, resp)
    \/ \E b \in confirmButtons : HandleEditItem(b[2], b[1])
    \/ \E b \in editButtons : HandleUpdateItem(b)
    \/ \E b \in editButtons : HandleSaveEdit(b)
    \/ \E itemId \in 1..MaxItems, c \in Categories, q \in {0, MaxQty}, n \in Notes :
            EditItem(itemId, c, q, n)

SpecEdit == InitAutoAdd /\ [][NextEdit]_vars

(***************************************************************************)
(* models/Session.js and the session service: the sessions table and the   *)
(* time.  The clock counts the hours since day 0, 00:00 UTC.  A timestamp   *)
(* is the text SQLite compares: <<day, separator, hour>>, the date and the  *)
(* hour being zero-padded digits of fixed width.                            *)
(***************************************************************************)
\* the hours the clock is followed for
MaxClock == 50

\* sessions ever created
MaxSessions == 1

SESSION_EXPIRE_HOURS == 24

HoursPerDay == 24

\* Date.prototype.toISOString: 'YYYY-MM-DDTHH:...', in UTC
toISOString(t) == <<t \div HoursPerDay, "T", t % HoursPerDay>>

\* SQLite's CURRENT_TIMESTAMP: 'YYYY-MM-DD HH:...', in UTC
CURRENT_TIMESTAMP(t) == <<t \div HoursPerDay, " ", t % HoursPerDay>>

\* the byte a separator is compared by
byte(ch) == IF ch = " " THEN 32 ELSE 84

\* the comparison of two texts under SQLite's BINARY collation: expires_at
\* holds a text no numeric affinity can convert, so both sides are texts
textGreater(a, b) ==
    \/ a[1] > b[1]
    \/ a[1] = b[1] /\ byte(a[2]) > byte(b[2])
    \/ a[1] = b[1] /\ byte(a[2]) = byte(b[2]) /\ a[3] > b[3]

\* the session data a caller stores
SessionData == {"draft", "edit_note"}

\* Session.save: expires_at is set once, SESSION_EXPIRE_HOURS ahead
sessionSave(table, id, data, expires_at, now) ==
    [i \in DOMAIN table \cup {id} |->
        IF i = id
        THEN [data |-> data,
              expires_at |-> IF expires_at = <<>>
                             THEN toISOString(now + SESSION_EXPIRE_HOURS)
                             ELSE expires_at]
        ELSE table[i]]

\* Session.findById: WHERE id = ? AND expires_at > CURRENT_TIMESTAMP
sessionFindById(table, id, now) ==
    IF id \in DOMAIN table /\ textGreater(table[id].expires_at, CURRENT_TIMESTAMP(now))
    THEN id ELSE Null

\* Session.cleanupExpired: DELETE ... WHERE expires_at <= CURRENT_TIMESTAMP
cleanupExpired(table, now) ==
    [i \in {j \in DOMAIN table :
                textGreater(table[j].expires_at, CURRENT_TIMESTAMP(now))} |-> table[i]]

\* what a session operation leaves in sessionLast: the operation, the id it
\* was given, the hour it ran at, whether the session was returned and the
\* expires_at of the session returned
SessionHandled(op, id, found) ==
    [op |-> op, id |-> id, at |-> clock, found |-> found,
     expires_at |-> IF found THEN sessions[id].expires_at ELSE <<>>]

UnchangedList ==
    UNCHANGED <<items, nextId, nextBatch, confirmButtons, shopButtons, cache,
                last, editButtons, event, query, authorizedUsers, calls, cacheFile>>

CreateCallbackSession(id, data) ==
    /\ id \notin DOMAIN sessions
    /\ sessions' = sessionSave(sessions, id, data, <<>>, clock)
    /\ sessionLast' = [op |-> "create", id |-> id, at |-> clock, found |-> FALSE,
                       expires_at |-> <<>>]
    /\ UNCHANGED clock
    /\ UnchangedList

GetCallbackData(id) ==
    /\ sessionLast' = SessionHandled("get", id, sessionFindById(sessions, id, clock) # Null)
    /\ UNCHANGED <<sessions, clock>>
    /\ UnchangedList

UpdateCallbackSession(id, newData) ==
    LET session == sessionFindById(sessions, id, clock) IN
    /\ sessions' = IF session = Null THEN sessions
                   ELSE sessionSave(sessions, id, newData,
                                    sessions[id].expires_at, clock)
    /\ sessionLast' = SessionHandled("update", id, session # Null)
    /\ UNCHANGED clock
    /\ UnchangedList

\* the hourly timer of startPeriodicCleanup
CleanupExpiredSessions ==
    /\ sessions' = cleanupExpired(sessions, clock)
    /\ sessionLast' = [op |-> "cleanup", id |-> Null, at |-> clock, found |-> FALSE,
                       expires_at |-> <<>>]
    /\ UNCHANGED clock
    /\ UnchangedList

\* an hour passes
Tick ==
    /\ clock < MaxClock
    /\ clock' = clock + 1
    /\ UNCHANGED <<sessions, sessionLast>>
    /\ UnchangedList

NextSession ==
    \/ \E id \in 1..MaxSessions, data \in SessionData : CreateCallbackSession(id, data)
    \/ \E id \in 1..MaxSessions : GetCallbackData(id)
    \/ \E id \in 1..MaxSessions, data \in SessionData : UpdateCallbackSession(id, data)
    \/ CleanupExpiredSessions
    \/ Tick

SpecSession == Init /\ [][NextSession]_vars

(***************************************************************************)
(* The acknowledgement of callback queries (auto-add handlers).  What a    *)
(* handler does to the list is modelled by the actions above; here a       *)
(* handler is the sequence of its awaited steps, each of which can throw,  *)
(* inside its try block:                                                   *)
(*   work       awaited calls of the store, the services or the bot        *)
(*   guard      a check that answers the query and returns when it fails   *)
(*   answer     bot.answerCallbackQuery                                    *)
(*   call       a call of one of the handlers named                        *)
(*   swallowed  awaited calls inside an inner try whose catch is empty     *)
(*   dispatch   the switch of handleCallbackQuery                          *)
(* query.stack holds the handlers entered and not yet left, innermost      *)
(* last; query.answers counts the answers to the query being handled.      *)
(***************************************************************************)
\* callback queries ever received
MaxQueries == 2

Step(op) == [op |-> op, to |-> {}]

CallOf(handlers) == [op |-> "call", to |-> handlers]

ShopViews == {"handleShopCategory", "handleBackToCategories"}

Body(h) ==
    CASE h = "handleCallbackQuery" -> <<Step("work"), Step("dispatch")>>
      [] h = "handleConfirmItem" ->
            <<Step("work"), Step("guard"), Step("answer"), Step("work")>>
      [] h = "handleChangeCategory" ->
            <<Step("work"), Step("guard"), Step("work"), Step("answer")>>
      [] h = "handleUpdateCategory" ->
            <<Step("work"), Step("guard"), Step("work"), Step("answer"),
              Step("work"), Step("swallowed")>>
      [] h = "handleUpdateCategoryByIndex" ->
            <<Step("guard"), Step("work"), Step("guard"), Step("work"),
              Step("answer"), Step("work"), Step("swallowed")>>
      [] h = "handleCancelBatch" -> <<Step("work"), Step("answer"), Step("work")>>
      [] h = "handleItemStatus" ->
            <<Step("work"), Step("guard"), Step("work"), CallOf(ShopViews),
              Step("answer")>>
      [] h = "handleClearFound" ->
            <<Step("work"), Step("answer"), Step("work"), CallOf(ShopViews)>>
      [] h = "handleRefresh" -> <<Step("answer"), Step("work"), CallOf(ShopViews)>>
      [] h = "handleClearSelection" ->
            <<Step("work"), Step("answer"), CallOf({"handleBackToCategories"})>>
      [] h = "handleShopCategory" -> <<Step("work"), Step("answer")>>
      [] h = "handleBackToCategories" -> <<Step("work"), Step("answer")>>
      [] h = "handleEditItem" ->
            <<Step("work"), Step("guard"), Step("work"), Step("answer")>>
      [] h = "handleBackToEditList" -> <<Step("work"), Step("answer")>>
      [] h = "handleUpdateItem" ->
            <<Step("work"), Step("guard"), Step("work"), Step("answer")>>
      [] h = "handleUpdateQuantity" ->
            <<Step("work"), Step("guard"), Step("work"), Step("answer")>>
      [] h = "handleEditNote" -> <<Step("work"), Step("answer")>>
      [] h = "handleSaveEdit" ->
            <<Step("work"), Step("guard"), Step("work"), Step("answer"),
              Step("work")>>
      [] h = "handleCancelEdit" -> <<Step("answer"), Step("work")>>
      [] OTHER -> <<>>

\* the switch: the handler of each action
HandlerOf(action) ==
    CASE action = "confirm_item" -> "handleConfirmItem"
      [] action = "change_cat" -> "handleChangeCategory"
      [] action = "update_cat" -> "handleUpdateCategory"
      [] action = "upd_cat" -> "handleUpdateCategoryByIndex"
      [] action = "cancel_batch" -> "handleCancelBatch"
      [] action = "item-status" -> "handleItemStatus"
      [] action = "clear-found" -> "handleClearFound"
      [] action = "refresh" -> "handleRefresh"
      [] action = "clear-selection" -> "handleClearSelection"
      [] action = "shop-category" -> "handleShopCategory"
      [] action = "back-to-categories" -> "handleBackToCategories"
      [] action = "edit_item" -> "handleEditItem"
      [] action = "update_item" -> "handleUpdateItem"
      [] action = "update_qty" -> "handleUpdateQuantity"
      [] action = "edit_note" -> "handleEditNote"
      [] action = "save_edit" -> "handleSaveEdit"
      [] action = "cancel_edit" -> "handleCancelEdit"
      [] action = "back_to_edit_list" -> "handleBackToEditList"
      [] OTHER -> ""

\* the actions a callback query may carry: those of the switch, 'noop', and
\* one the switch does not know
CallbackActions ==
    {"confirm_item", "change_cat", "update_cat", "upd_cat", "cancel_batch",
     "item-status", "clear-found", "refresh", "clear-selection",
     "shop-category", "back-to-categories", "edit_item", "update_item",
     "update_qty", "edit_note", "save_edit", "cancel_edit",
     "back_to_edit_list", "noop", "other"}

\* a catch block that only logs
catchBlockLogOnly(h) == 0

\* the catch block of a handler: the number of answers it sends
catchBlock(h) == 1

Running == query.stack # <<>>

Top == query.stack[Len(query.stack)]

\* the step the innermost handler is at (none: it has run to its end)
Current ==
    IF Top.pc <= Len(Body(Top.h)) THEN Body(Top.h)[Top.pc] ELSE Step("return")

Advance == [query.stack EXCEPT ![Len(query.stack)].pc = @ + 1]

Leave == SubSeq(query.stack, 1, Len(query.stack) - 1)

UnchangedButQuery ==
    UNCHANGED <<items, nextId, nextBatch, confirmButtons, shopButtons, cache,
                last, editButtons, sessions, clock, sessionLast, event,
                authorizedUsers, calls, cacheFile>>

\* bot.on('callback_query'): a query arrives once the previous one is handled
ReceiveCallbackQuery(action) ==
    /\ ~Running
    /\ query.received < MaxQueries
    /\ query' = [action |-> action,
                 stack |-> <<[h |-> "handleCallbackQuery", pc |-> 1]>>,
                 answers |-> 0,
                 received |-> query.received + 1]
    /\ UnchangedButQuery

\* an awaited call settles: it resolves, or it rejects and the catch block of
\* the handler runs, after which the handler returns
Await(threw) ==
    /\ Running
    /\ Current.op \in {"work", "swallowed"}
    /\ query' = IF threw /\ Current.op = "work"
                THEN [query EXCEPT !.stack = Leave,
                                   !.answers = @ + catchBlock(Top.h)]
                ELSE [query EXCEPT !.stack = Advance]
    /\ UnchangedButQuery

\* a check passes, or it fails and the handler answers and returns
Guard(passed) ==
    /\ Running
    /\ Current.op = "guard"
    /\ query' = IF passed THEN [query EXCEPT !.stack = Advance]
                ELSE [query EXCEPT !.stack = Leave, !.answers = @ + 1]
    /\ UnchangedButQuery

AnswerCallbackQuery ==
    /\ Running
    /\ Current.op = "answer"
    /\ query' = [query EXCEPT !.stack = Advance, !.answers = @ + 1]
    /\ UnchangedButQuery

Call(h) ==
    /\ Running
    /\ Current.op = "call"
    /\ h \in Current.to
    /\ query' = [query EXCEPT !.stack = Advance \o <<[h |-> h, pc |-> 1]>>]
    /\ UnchangedButQuery

\* the switch: the handler of the action is called; 'noop' and an unknown
\* action are answered in place
Dispatch ==
    /\ Running
    /\ Current.op = "dispatch"
    /\ query' = IF HandlerOf(query.action) # ""
                THEN [query EXCEPT !.stack =
                         Advance \o <<[h |-> HandlerOf(query.action), pc |-> 1]>>]
                ELSE [query EXCEPT !.stack = Advance, !.answers = @ + 1]
    /\ UnchangedButQuery

Return ==
    /\ Running
    /\ Current.op = "return"
    /\ query' = [query EXCEPT !.stack = Leave]
    /\ UnchangedButQuery

\* the steps of the handlers: what the event loop runs
RunHandler ==
    \/ \E threw \in BOOLEAN : Await(threw)
    \/ \E passed \in BOOLEAN : Guard(passed)
    \/ AnswerCallbackQuery
    \/ \E h \in ShopViews : Call(h)
    \/ Dispatch
    \/ Return

NextCallback ==
    \/ \E action \in CallbackActions : ReceiveCallbackQuery(action)
    \/ RunHandler

\* every awaited promise settles and the event loop runs its continuation
SpecCallback == Init /\ [][NextCallback]_vars /\ WF_vars(RunHandler)

(***************************************************************************)
(* index.js: the authorization listeners.  setupMiddleware registers its   *)
(* listeners before registerHandlers registers those of the handlers; an   *)
(* update is passed to every listener of its kind, in that order.          *)
(***************************************************************************)
\* the senders of updates
Users ==
    {[username |-> "alice", first_name |-> "Alice"],
     [username |-> "bob", first_name |-> "Bob"]}

\* what AUTHORIZED_USERS may be configured to: nothing, or one user name
AuthorizedLists == {{}, {"alice"}}

isAuthorized(list, user) ==
    IF user = NoUser THEN FALSE
    ELSE IF list = {} THEN TRUE
    ELSE user.username \in list \/ user.first_name \in list

\* the listener of setupMiddleware: it tells a sender who is not authorized
\* so, and returns
Middleware(user) ==
    /\ last.op # "received"
    /\ event' = [user |-> user,
                 refused |-> user # NoUser /\ ~isAuthorized(authorizedUsers, user),
                 text |-> <<>>]
    /\ last' = Handled("received", Null, Null, "", items, "", FALSE, Null, Null, 0)
    /\ UNCHANGED <<items, nextId, nextBatch, confirmButtons, shopButtons, cache,
                   editButtons, sessions, clock, sessionLast, query,
                   authorizedUsers, calls, cacheFile>>

\* the listener the handlers registered: it runs on the same update, whatever
\* the first listener did
HandlerListener ==
    /\ last.op = "received"
    /\ \/ \E groceryText \in OneLineTexts :
             \E resp \in OneEntryResponses(cache, groceryText) :
                HandleTextMessageAutoAdd(groceryText, resp)
       \/ \E b \in confirmButtons : HandleCancelBatchAutoAdd(b[1])
       \/ \E b \in confirmButtons : HandleEditItem(b[2], b[1])
       \/ \E b \in editButtons : HandleUpdateItem(b)
       \/ \E c \in Categories : HandleShopCategory(c)
       \/ \E b \in shopButtons, c \in Categories :
             HandleItemStatus(b[1], b[2], c, TRUE)

InitAuth ==
    /\ InitSide
    /\ event = NoEvent
    /\ authorizedUsers \in AuthorizedLists
    /\ cache \in Caches
    /\ cacheFile = cache
    /\ items = EmptyStore
    /\ nextId = 1
    /\ nextBatch = 1
    /\ confirmButtons = {}
    /\ shopButtons = {}
    /\ last = Handled("start", Null, Null, "", EmptyStore, "", FALSE, Null, Null, 0)

NextAuth ==
    \/ \E user \in Users : Middleware(user)
    \/ HandlerListener

SpecAuth == InitAuth /\ [][NextAuth]_vars

(***************************************************************************)
(* parseLineForProduct on its own: a line arrives, then it is parsed.      *)
(* The line is the trimmed line, split at its runs of whitespace; "2kg" is *)
(* a token that starts with a digit but is not made of digits only.        *)
(***************************************************************************)
MaxTokens == 3

LineTokens == DigitTokens \cup {"pain", "2kg"}

LineInputs == UNION {[1..n -> LineTokens] : n \in 0..MaxTokens}

\* one line of a message reaches parseWithCache's loop
ReceiveLine(line) ==
    /\ event' = [event EXCEPT !.text = line]
    /\ last' = [op |-> "line"]
    /\ UNCHANGED <<items, nextId, nextBatch, confirmButtons, shopButtons,
                   cache, editButtons, sessions, clock, sessionLast, query,
                   authorizedUsers, calls, cacheFile>>

ParseLine ==
    /\ last.op = "line"
    /\ last' = [op |-> "parseLineForProduct",
                parsedLine |-> parseLineForProduct(event.text)]
    /\ UNCHANGED <<items, nextId, nextBatch, confirmButtons, shopButtons,
                   cache, side>>

NextLine ==
    \/ \E line \in LineInputs : ReceiveLine(line)
    \/ ParseLine

SpecLine == Init /\ [][NextLine]_vars

(***************************************************************************)
(* The categories the auto-add workflow stores: what the AI answers, and   *)
(* the category callbacks of the auto-add handlers.                        *)
(***************************************************************************)
\* the sentinel the prompt tells the AI to use, and a label of no list
UnknownCategory == "Unknown"

CategoryLabels == Categories \cup {UnknownCategory, "Bricolage"}

\* the AI answers one entry, with any label as its category
CategoryResponses(c, groceryText) ==
    IF parseWithCache(c, groceryText).unparsedLines = <<>>
    THEN {[kind |-> "throw", entries |-> <<>>]}
    ELSE {[kind |-> "array",
           entries |-> <<[article |-> "pain", quantity |-> 1, category |-> l]>>] :
             l \in CategoryLabels}

\* what both category callbacks do once they have a category: the item must
\* belong to the batch of the button, then its category is overwritten
UpdateCategory(op, batchId, itemId, newCategory) ==
    IF ~belongsToBatch(items, batchId, itemId)
    THEN /\ last' = Handled(op, batchId, itemId, "", items,
                            "not_found", FALSE, Null, Null, 0)
         /\ UNCHANGED <<cache, side, items, nextId, nextBatch, confirmButtons, shopButtons>>
    ELSE /\ items' = saveExisting(items, itemId,
                [items[itemId] EXCEPT !.category = newCategory])
         /\ confirmButtons' = confirmButtons \cup
                createAutoAddKeyboard(batchId, findByBatchId(items', batchId))
         /\ last' = Handled(op, batchId, itemId, "", items, "ok",
                            FALSE, itemId, Null, 0)
         /\ UNCHANGED <<cache, side, nextId, nextBatch, shopButtons>>

\* update_cat: the category is the third parameter of the callback data
HandleUpdateCategoryAutoAdd(batchId, itemId, newCategory) ==
    UpdateCategory("update_cat", batchId, itemId, newCategory)

\* upd_cat: the category is CATEGORIES[categoryIndex] of a valid index
HandleUpdateCategoryByIndexAutoAdd(batchId, itemId, categoryIndex) ==
    IF categoryIndex < 0 \/ categoryIndex >= Len(CATEGORIES)
    THEN /\ last' = Handled("upd_cat", batchId, itemId, "", items,
                            "invalid", FALSE, Null, Null, 0)
         /\ UNCHANGED <<cache, side, items, nextId, nextBatch, confirmButtons, shopButtons>>
    ELSE UpdateCategory("upd_cat", batchId, itemId, CATEGORIES[categoryIndex + 1])

NextCategory ==
    \/ \E groceryText \in OneLineTexts :
          \E resp \in CategoryResponses(cache, groceryText) :
             HandleTextMessageAutoAdd(groceryText, resp)
    \/ \E b \in confirmButtons, l \in CategoryLabels :
          HandleUpdateCategoryAutoAdd(b[1], b[2], l)
    \/ \E b \in confirmButtons, k \in 0..(Len(CATEGORIES) - 1) :
          HandleUpdateCategoryByIndexAutoAdd(b[1], b[2], k)
    \/ \E b \in editButtons : HandleUpdateItem(b)
    \/ \E b \in confirmButtons : HandleEditItem(b[2], b[1])

SpecCategory == InitAutoAdd /\ [][NextCategory]_vars

(***************************************************************************)
(* services/groceryService.js, confirmItemFromBatch between its awaits.    *)
(* Node runs the code between two awaits without interruption and SQLite   *)
(* runs one statement at a time, so a call advances by one awaited store   *)
(* operation per step; the calls of concurrent updates interleave at these *)
(* steps.  A call in `calls` holds the objects the method has in memory:   *)
(*   itemId        the argument                                            *)
(*   pc            the await the call will run next ("done": none)         *)
(*   tempItem      the row findById returned                               *)
(*   existingId    the id of the row findByArticle returned                *)
(*   existingItem  that row after the assignments of the merge             *)
(*   pre           the store when the call began                           *)
(*   alone         whether every earlier call had ended when it began      *)
(*   result        "" while in flight, then "returned", "threw", or        *)
(*                 "interrupted" when the process stopped under it         *)
(***************************************************************************)
MaxCalls == 2

NoRow == GroceryItem("", 0, "", "", Null)

\* the stores the calls start from: a text message with 'lait' (item 1 of
\* batch 1), confirmed or not, then a message with 'Lait' x 2 (item 2 of
\* batch 2), then a third with 'lait' (item 3 of batch 3); or the second
\* message names the product on two lines (items 2 and 3 of batch 2)
LaitEntry == [article |-> "lait", quantity |-> 1, category |-> "Produits laitiers"]

LaitTwice == [article |-> "Lait", quantity |-> 2, category |-> "Boulangerie"]

Unconfirmed == createItems(EmptyStore, <<LaitEntry>>, 1, "confirming", 1).store

Committed == confirmItemFromBatch(Unconfirmed, 1).store

SetupStores ==
    LET second(store) == createItems(store, <<LaitTwice>>, 2, "confirming", 2).store
        third(store) == createItems(store, <<LaitEntry>>, 3, "confirming", 3).store
    IN  {Unconfirmed, second(Unconfirmed), second(Committed),
         third(second(Committed)),
         createItems(Committed, <<LaitTwice, LaitEntry>>, 2, "confirming", 2).store}

InitConfirmSteps ==
    /\ InitSide
    /\ event = NoEvent
    /\ authorizedUsers = {}
    /\ cache = EmptyCache
    /\ cacheFile = cache
    /\ items \in SetupStores
    /\ nextId = Cardinality(DOMAIN items) + 1
    /\ nextBatch = Cardinality(DOMAIN items) + 1
    /\ confirmButtons =
           UNION {createBatchConfirmationKeyboard(
                      b, findByBatchIdAndStatus(items, b, "confirming")) : b \in 1..3}
    /\ shopButtons = {}
    /\ last = Handled("start", Null, Null, "", EmptyStore, "", FALSE, Null, Null, 0)

InFlight(c) == c.result = ""

UnchangedButCalls ==
    UNCHANGED <<nextId, nextBatch, confirmButtons, shopButtons, cache, last,
                editButtons, sessions, clock, sessionLast, event, query,
                authorizedUsers, cacheFile>>

\* a tap on a confirm button reaches groceryService.confirmItemFromBatch
BeginConfirm(itemId) ==
    /\ Len(calls) < MaxCalls
    /\ calls' = Append(calls,
           [itemId |-> itemId, pc |-> "findById", tempItem |-> NoRow,
            existingId |-> Null, existingItem |-> NoRow, pre |-> items,
            alone |-> \A k \in DOMAIN calls : ~InFlight(calls[k]),
            result |-> ""])
    /\ UNCHANGED items
    /\ UnchangedButCalls

\* await GroceryItem.findById(itemId), and the two status tests
FindByIdStep(k) ==
    LET c == calls[k]
        tempItem == findById(items, c.itemId)
    IN  /\ InFlight(c) /\ c.pc = "findById"
        /\ calls' = [calls EXCEPT ![k] =
               IF tempItem = Null
               THEN [c EXCEPT !.pc = "done", !.result = "threw"]
               ELSE IF items[tempItem].status # "confirming"
               THEN [c EXCEPT !.pc = "done", !.tempItem = items[tempItem],
                              !.result = IF items[tempItem].status = "pending"
                                         THEN "returned" ELSE "threw"]
               ELSE [c EXCEPT !.pc = "findByArticle", !.tempItem = items[tempItem]]]
        /\ UNCHANGED items
        /\ UnchangedButCalls

\* the merge test on the row just read and the object in memory
mergeTestAnyBatch(store, existingItem, tempItem) == existingItem # Null

mergeTest(store, existingItem, tempItem) ==
    existingItem # Null /\ store[existingItem].batch_id # tempItem.batch_id

\* await GroceryItem.findByArticle(tempItem.article), the merge test and the
\* assignments to the object that will be saved
FindByArticleStep(k) ==
    LET c == calls[k]
        existingItem == findByArticle(items, c.tempItem.article)
    IN  /\ InFlight(c) /\ c.pc = "findByArticle"
        /\ calls' = [calls EXCEPT ![k] =
               IF mergeTest(items, existingItem, c.tempItem)
               THEN [c EXCEPT !.pc = "save", !.existingId = existingItem,
                              !.existingItem = mergedItem(items[existingItem],
                                                          c.tempItem)]
               ELSE [c EXCEPT !.pc = "saveTemp",
                              !.tempItem = [c.tempItem EXCEPT !.status = "pending"]]]
        /\ UNCHANGED items
        /\ UnchangedButCalls

\* a save that adds to the quantity the row has now
saveMergedAdding(store, c) ==
    IF c.existingId \in DOMAIN store
    THEN [store EXCEPT ![c.existingId] =
             [c.existingItem EXCEPT
                 !.quantity = store[c.existingId].quantity + c.tempItem.quantity]]
    ELSE store

\* existingItem.save(): the UPDATE writes the fields of the object in memory
saveMerged(store, c) == saveExisting(store, c.existingId, c.existingItem)

\* await existingItem.save()
SaveExistingStep(k) ==
    LET c == calls[k] IN
    /\ InFlight(c) /\ c.pc = "save"
    /\ items' = saveMerged(items, c)
    /\ calls' = [calls EXCEPT ![k] = [c EXCEPT !.pc = "delete"]]
    /\ UnchangedButCalls

\* await tempItem.delete(); return existingItem
DeleteTempStep(k) ==
    LET c == calls[k] IN
    /\ InFlight(c) /\ c.pc = "delete"
    /\ items' = delete(items, c.itemId)
    /\ calls' = [calls EXCEPT ![k] = [c EXCEPT !.pc = "done", !.result = "returned"]]
    /\ UnchangedButCalls

\* await tempItem.save(); return tempItem
SaveTempStep(k) ==
    LET c == calls[k] IN
    /\ InFlight(c) /\ c.pc = "saveTemp"
    /\ items' = saveExisting(items, c.itemId, c.tempItem)
    /\ calls' = [calls EXCEPT ![k] = [c EXCEPT !.pc = "done", !.result = "returned"]]
    /\ UnchangedButCalls

\* the process stops: every call in flight ends where it is
Crash ==
    /\ \E k \in DOMAIN calls : InFlight(calls[k])
    /\ calls' = [k \in DOMAIN calls |->
                    IF InFlight(calls[k])
                    THEN [calls[k] EXCEPT !.result = "interrupted"] ELSE calls[k]]
    /\ UNCHANGED items
    /\ UnchangedButCalls

NextConfirmSteps ==
    \/ \E b \in confirmButtons : BeginConfirm(b[2])
    \/ \E k \in DOMAIN calls : FindByIdStep(k)
    \/ \E k \in DOMAIN calls : FindByArticleStep(k)
    \/ \E k \in DOMAIN calls : SaveExistingStep(k)
    \/ \E k \in DOMAIN calls : DeleteTempStep(k)
    \/ \E k \in DOMAIN calls : SaveTempStep(k)
    \/ Crash

SpecConfirmSteps == InitConfirmSteps /\ [][NextConfirmSteps]_vars

(***************************************************************************)
(* services/groceryService.js, clearSelection between its awaits, while    *)
(* the shopper taps item buttons.  A call in `calls` holds                  *)
(*   pc             the await the call will run next ("done": none)        *)
(*   selectedItems  the ids findByStatus returned that the loop has not    *)
(*                  updated yet, newest first                              *)
(*   updatedCount   the rows the loop has updated                          *)
(***************************************************************************)
PainEntry == [article |-> "pain", quantity |-> 1, category |-> "Boulangerie"]

\* the list once a message with 'lait' and 'pain' has been confirmed
ShoppingList ==
    confirmItemFromBatch(
        confirmItemFromBatch(
            createItems(EmptyStore, <<LaitEntry, PainEntry>>, 1, "confirming", 1).store,
            1).store,
        2).store

InitClearSteps ==
    /\ InitSide
    /\ event = NoEvent
    /\ authorizedUsers = {}
    /\ cache = EmptyCache
    /\ cacheFile = cache
    /\ items = ShoppingList
    /\ nextId = 3
    /\ nextBatch = 2
    /\ confirmButtons = {}
    /\ shopButtons = {}
    /\ last = Handled("start", Null, Null, "", EmptyStore, "", FALSE, Null, Null, 0)

\* the ids of a set, the row created last first (ORDER BY created_at DESC)
RECURSIVE newestFirst(_)
newestFirst(ids) ==
    IF ids = {} THEN <<>>
    ELSE LET latest == CHOOSE i \in ids : \A j \in ids : j <= i
         IN  <<latest>> \o newestFirst(ids \ {latest})

\* a tap on the clear-selection button reaches groceryService.clearSelection
BeginClear ==
    /\ Len(calls) < MaxCalls
    /\ calls' = Append(calls, [pc |-> "findByStatus", selectedItems |-> <<>>,
                               updatedCount |-> 0])
    /\ UNCHANGED items
    /\ UnchangedButCalls

\* await GroceryItem.findByStatus('selected')
ClearFindStep(k) ==
    LET c == calls[k]
        selectedItems == newestFirst(findByStatus(items, "selected"))
    IN  /\ c.pc = "findByStatus"
        /\ calls' = [calls EXCEPT ![k] =
               [c EXCEPT !.selectedItems = selectedItems,
                         !.pc = IF selectedItems = <<>> THEN "done"
                                ELSE "updateStatus"]]
        /\ UNCHANGED items
        /\ UnchangedButCalls

\* await GroceryItem.updateStatus(item.id, 'pending'), one turn of the loop
ClearUpdateStep(k) ==
    LET c == calls[k]
        item == Head(c.selectedItems)
    IN  /\ c.pc = "updateStatus"
        /\ items' = updateStatus(items, item, "pending")
        /\ calls' = [calls EXCEPT ![k] =
               [c EXCEPT !.selectedItems = Tail(c.selectedItems),
                         !.updatedCount =
                             IF findById(items, item) # Null THEN @ + 1 ELSE @,
                         !.pc = IF Tail(c.selectedItems) = <<>> THEN "done"
                                ELSE "updateStatus"]]
        /\ UnchangedButCalls

NextClearSteps ==
    \/ \E c \in Categories : HandleShopCategory(c)
    \/ \E b \in shopButtons, c \in Categories : HandleItemStatus(b[1], b[2], c, TRUE)
    \/ BeginClear
    \/ \E k \in DOMAIN calls : ClearFindStep(k)
    \/ \E k \in DOMAIN calls : ClearUpdateStep(k)

SpecClearSteps == InitClearSteps /\ [][NextClearSteps]_vars

(***************************************************************************)
(* The shopping message of the auto-add handlers and its navigation.  One  *)
(* message is followed: `last.view` is the title on its header line, after *)
(* "Shopping List - ", which is either "Select Category" or a category.   *)
(*   op        the callback handled last                                   *)
(*   from      the title of the message when the button was pressed        *)
(*   view      the title of the message now                                *)
(*   rendered  whether the handler edited the message                      *)
(*   store     the store the handler left                                  *)
(***************************************************************************)
SelectCategory == "Select Category"

\* the list a shopper walks through: two products of one category and one
\* of another, added by one message
NavList ==
    createItems(EmptyStore,
                <<LaitEntry, PainEntry,
                  [article |-> "brioche", quantity |-> 1, category |-> "Boulangerie"]>>,
                1, "pending", 1).store

\* a navigation that stays in the category of the header whatever it holds
smartNavigationStay(store, currentMessage) == currentMessage

\* the title of the view rendered after a press: the regular expression
\* takes the title from the header of the message; a category is kept when
\* the active items still hold one of it
smartNavigation(store, currentMessage) ==
    LET category == currentMessage
        categoryItems ==
            SelectSeq(getAllItemsSorted(store).activeItems,
                      LAMBDA i : store[i].category = category)
    IN  IF currentMessage # SelectCategory /\ Len(categoryItems) > 0
        THEN category ELSE SelectCategory

\* the item buttons of a view
keyboardOfView(store, view) ==
    IF view = SelectCategory THEN {}
    ELSE createCategoryShoppingKeyboard(store, view)

Viewed(op, from, view, rendered, store) ==
    [op |-> op, from |-> from, view |-> view, rendered |-> rendered,
     store |-> store]

InitNav ==
    /\ InitSide
    /\ event = NoEvent
    /\ authorizedUsers = {}
    /\ cache = EmptyCache
    /\ cacheFile = cache
    /\ items = NavList
    /\ nextId = 4
    /\ nextBatch = 2
    /\ confirmButtons = {}
    /\ shopButtons = {}
    /\ last = Viewed("shop", SelectCategory, SelectCategory, TRUE, items)

UnchangedByNav == UNCHANGED <<nextId, nextBatch, confirmButtons, cache, side>>

\* after a press the message is edited to the view the navigation chose
Render(op, store) ==
    LET view == smartNavigation(store, last.view) IN
    /\ last' = Viewed(op, last.view, view, TRUE, store)
    /\ shopButtons' = keyboardOfView(store, view)

\* shop-category: a category button of the selection view
HandleShopCategoryNav(category) ==
    /\ last.view = SelectCategory
    /\ last' = Viewed("shop-category", last.view, category, TRUE, items)
    /\ shopButtons' = keyboardOfView(items, category)
    /\ UNCHANGED items
    /\ UnchangedByNav

HandleBackToCategoriesNav ==
    /\ last.view # SelectCategory
    /\ last' = Viewed("back-to-categories", last.view, SelectCategory, TRUE,
                       items)
    /\ shopButtons' = {}
    /\ UNCHANGED items
    /\ UnchangedByNav

\* item-status: nothing is rendered when the row is gone
HandleItemStatusNav(itemId, newStatus) ==
    /\ items' = updateStatus(items, itemId, newStatus)
    /\ IF findById(items, itemId) # Null
       THEN Render("item-status", items')
       ELSE /\ last' = Viewed("item-status", last.view, last.view, FALSE, items)
            /\ UNCHANGED shopButtons
    /\ UnchangedByNav

HandleClearFoundNav ==
    /\ items' = clearFoundItems(items)
    /\ Render("clear-found", items')
    /\ UnchangedByNav

HandleRefreshNav ==
    /\ UNCHANGED items
    /\ Render("refresh", items)
    /\ UnchangedByNav

\* a tap on an item button of another shopping message, freshly rendered
TapElsewhere(itemId) ==
    /\ items[itemId].status # "found"
    /\ items' = updateStatus(items, itemId, nextStatus(items[itemId].status))
    /\ UNCHANGED <<last, shopButtons>>
    /\ UnchangedByNav

NextNav ==
    \/ \E category \in Categories : HandleShopCategoryNav(category)
    \/ HandleBackToCategoriesNav
    \/ \E b \in shopButtons : HandleItemStatusNav(b[1], b[2])
    \/ HandleClearFoundNav
    \/ HandleRefreshNav
    \/ \E itemId \in DOMAIN items : TapElsewhere(itemId)

SpecNav == InitNav /\ [][NextNav]_vars

(***************************************************************************)
(* The product cache on its own: productCacheService keeps the cache in    *)
(* memory and writes the whole of it to product_cache.json after a         *)
(* change.  Names are token sequences in the case the caller wrote them.   *)
(***************************************************************************)
MaxCacheSize == 3

\* the names callers pass: a canonical name with a capital and without, a
\* short form, another product and a word that Object.prototype answers
CacheNames ==
    {<<"Lait">>, <<"lait">>, <<"lai">>, <<"pain">>, <<"constructor">>}

CacheCategories == {"Produits laitiers", "Boulangerie"}

\* the entries and the variants a cache holds
cacheSize(c) ==
    Cardinality(DOMAIN c)
    + Cardinality({<<key, k>> \in (DOMAIN c) \X (1..Cardinality(CacheNames)) :
                        k <= Len(c[key].variants)})

\* a new key is appended to the object, after the keys it has
withKey(c, key, entry) == c @@ (key :> entry)

\* the variant pushed without looking whether the list has it
addProductVariantAlwaysPush(c, correctName, category, variant) ==
    LET normalizedCorrectName == normalizeText(correctName)
        normalizedVariant == normalizeText(variant)
        entered ==
            IF normalizedCorrectName \notin DOMAIN c
            THEN withKey(c, normalizedCorrectName,
                         [correctName |-> correctName, category |-> category,
                          variants |-> <<>>,
                          position |-> Cardinality(DOMAIN c) + 1])
            ELSE [c EXCEPT ![normalizedCorrectName].category = category]
    IN  IF normalizedVariant = normalizedCorrectName
        THEN [cache |-> c, result |-> "returned", saves |-> FALSE]
        ELSE IF normalizedCorrectName \notin DOMAIN c
                /\ normalizedCorrectName \in ObjectPrototype
        THEN [cache |-> c, result |-> "threw", saves |-> FALSE]
        ELSE [cache |-> [entered EXCEPT ![normalizedCorrectName].variants =
                                            Append(@, normalizedVariant)],
              result |-> "returned", saves |-> TRUE]

\* the cache addProductVariant leaves in memory, how the call ends and
\* whether it reaches saveCache.  For a canonical name that the cache lacks
\* and Object.prototype answers, this.cache[name] is the inherited value:
\* no entry is created and reading .variants.includes of it throws.
addProductVariant(c, correctName, category, variant) ==
    LET normalizedCorrectName == normalizeText(correctName)
        normalizedVariant == normalizeText(variant)
        entered ==
            IF normalizedCorrectName \notin DOMAIN c
            THEN withKey(c, normalizedCorrectName,
                         [correctName |-> correctName, category |-> category,
                          variants |-> <<>>,
                          position |-> Cardinality(DOMAIN c) + 1])
            ELSE [c EXCEPT ![normalizedCorrectName].category = category]
    IN  IF normalizedVariant = normalizedCorrectName
        THEN [cache |-> c, result |-> "returned", saves |-> FALSE]
        ELSE IF normalizedCorrectName \notin DOMAIN c
                /\ normalizedCorrectName \in ObjectPrototype
        THEN [cache |-> c, result |-> "threw", saves |-> FALSE]
        ELSE [cache |->
                IF includes(entered[normalizedCorrectName].variants,
                            normalizedVariant)
                THEN entered
                ELSE [entered EXCEPT ![normalizedCorrectName].variants =
                                         Append(@, normalizedVariant)],
              result |-> "returned", saves |-> TRUE]

\* what the last call of the service was given and how it ended; before is
\* the cache the call found
Called(op, correctName, category, variant, result, saves, written, found,
       before) ==
    [op |-> op, correctName |-> correctName, category |-> category,
     variant |-> variant, result |-> result, saves |-> saves,
     written |-> written, found |-> found, before |-> before]

InitCache ==
    /\ InitSide
    /\ event = NoEvent
    /\ authorizedUsers = {}
    /\ cache = EmptyCache
    /\ cacheFile = cache
    /\ items = EmptyStore
    /\ nextId = 1
    /\ nextBatch = 1
    /\ confirmButtons = {}
    /\ shopButtons = {}
    /\ last = Called("start", <<>>, "", <<>>, "returned", FALSE, FALSE, {},
                     EmptyCache)

UnchangedByCache ==
    UNCHANGED <<items, nextId, nextBatch, confirmButtons, shopButtons,
                editButtons, sessions, clock, sessionLast, event, query,
                authorizedUsers, calls>>

\* addProductVariant with its saveCache: fs.writeFile writes the document
\* or rejects, and saveCache catches the rejection and logs it
AddProductVariant(correctName, category, variant) ==
    LET r == addProductVariant(cache, correctName, category, variant) IN
    /\ cacheSize(cache) < MaxCacheSize
    /\ cache' = r.cache
    /\ \E written \in (IF r.saves THEN BOOLEAN ELSE {FALSE}) :
        /\ cacheFile' = IF written THEN r.cache ELSE cacheFile
        /\ last' = Called("addProductVariant", correctName, category, variant,
                          r.result, r.saves, written, {}, cache)
    /\ UnchangedByCache

\* a lookup of a product name
FindProduct(productName) ==
    /\ last' = Called("findProduct", productName, "", <<>>, "returned", FALSE,
                      FALSE, findProduct(cache, productName), cache)
    /\ UNCHANGED <<cache, cacheFile>>
    /\ UnchangedByCache

NextCache ==
    \/ \E correctName \in CacheNames, category \in CacheCategories,
          variant \in CacheNames :
            AddProductVariant(correctName, category, variant)
    \/ \E productName \in CacheNames : FindProduct(productName)

SpecCache == InitCache /\ [][NextCache]_vars

(***************************************************************************)
(* The list parseItemsForConfirmation builds before it saves anything: a   *)
(* text and a cache are drawn at the start, and the list is built from     *)
(* whatever the AI answers for the miss lines.                             *)
(***************************************************************************)
Built(op, resp, parsedItems) ==
    [op |-> op, resp |-> resp, parsedItems |-> parsedItems]

InitCombine ==
    /\ InitSide
    /\ event \in {[NoEvent EXCEPT !.text = t] : t \in Texts}
    /\ authorizedUsers = {}
    /\ cache \in Caches
    /\ cacheFile = cache
    /\ items = EmptyStore
    /\ nextId = 1
    /\ nextBatch = 1
    /\ confirmButtons = {}
    /\ shopButtons = {}
    /\ last = Built("start", [kind |-> "throw", entries |-> <<>>], <<>>)

\* the list is built when the AI was not needed or its answer was valid
CombineParsed(resp) ==
    LET fromCache == parseWithCache(cache, event.text)
        geminiItems == IF fromCache.unparsedLines # <<>>
                       THEN parseGroceryItems(resp)
                       ELSE [threw |-> FALSE, items |-> <<>>]
    IN  /\ ~geminiItems.threw
        /\ last' = Built("parsedItems", resp,
                         combineParsed(fromCache, geminiItems.items))
        /\ UNCHANGED <<items, nextId, nextBatch, confirmButtons, shopButtons,
                       cache, side>>

NextCombine ==
    \E resp \in AIResponsesTo(cache, event.text) : CombineParsed(resp)

SpecCombine == InitCombine /\ [][NextCombine]_vars

(***************************************************************************)
(* Text messages when the store may refuse a write: GroceryItem.save       *)
(* rejects when the INSERT fails, the loop of parseItemsForConfirmation    *)
(* stops there and the handler answers as for any other parse error.       *)
(* failAt is the place, among the entries that are saved, of the save that *)
(* rejects; 0 when every save succeeds.                                    *)
(***************************************************************************)
\* the entries the loop saves: those with an article and a category
savedEntries(parsed) ==
    SelectSeq(parsed, LAMBDA newItem : newItem.article # "" /\ newItem.category # "")

\* the entries whose save has succeeded when the loop ends
entriesSaved(parsed, failAt) ==
    IF failAt = 0 \/ failAt > Len(savedEntries(parsed))
    THEN savedEntries(parsed)
    ELSE SubSeq(savedEntries(parsed), 1, failAt - 1)

\* what a submission leaves when the loop ran over parsedItems: threw says
\* that the AI collaborator failed before the loop; ids are the rows the
\* answer shows with buttons; a failed submission records the place of the
\* save that rejected
submitted(status, threw, parsedItems, failAt) ==
    LET made == createItems(items, entriesSaved(parsedItems, failAt), nextId,
                            status, nextBatch)
        n == Cardinality(made.ids)
        failed(ai, at) ==
            [Handled("message", Null, Null, "", items, "parse_error", FALSE,
                     Null, Null, 0) EXCEPT !.ai = ai] @@ [failAt |-> at]
    IN  IF threw
        THEN [store |-> items, nextId |-> nextId, nextBatch |-> nextBatch,
              ids |-> {}, last |-> failed("failed", 0)]
        ELSE IF failAt > 0
        THEN [store |-> made.store, nextId |-> nextId + n,
              nextBatch |-> nextBatch + 1, ids |-> {},
              last |-> failed("none", failAt)]
        ELSE [store |-> made.store, nextId |-> nextId + n,
              nextBatch |-> nextBatch + 1, ids |-> made.ids,
              last |-> Handled("message", nextBatch, Null, "", items,
                               IF n = 0 THEN "no_items" ELSE "ok",
                               FALSE, Null, Null, n)]

\* the explicit-confirmation handler: every line goes to the AI
HandleTextMessageSaving(resp, failAt) ==
    LET parsed == parseGroceryItems(resp)
        r == submitted("confirming", parsed.threw, parsed.items, failAt)
    IN  /\ nextBatch <= MaxBatches
        /\ r.nextId - 1 <= MaxItems
        /\ failAt <= Len(savedEntries(parsed.items))
        /\ items' = r.store
        /\ nextId' = r.nextId
        /\ nextBatch' = r.nextBatch
        /\ confirmButtons' = confirmButtons \cup
               createBatchConfirmationKeyboard(nextBatch, r.ids)
        /\ last' = r.last
        /\ UNCHANGED <<shopButtons, cache, side>>

\* the auto-add handler: cache first, the AI for the miss lines
HandleTextMessageAutoAddSaving(groceryText, resp, failAt) ==
    LET fromCache == parseWithCache(cache, groceryText)
        geminiItems == IF fromCache.unparsedLines # <<>>
                       THEN parseGroceryItems(resp)
                       ELSE [threw |-> FALSE, items |-> <<>>]
        parsedItems == combineParsed(fromCache, geminiItems.items)
        r == submitted("pending", geminiItems.threw, parsedItems, failAt)
    IN  /\ nextBatch <= MaxBatches
        /\ r.nextId - 1 <= MaxItems
        /\ failAt <= Len(savedEntries(parsedItems))
        /\ items' = r.store
        /\ nextId' = r.nextId
        /\ nextBatch' = r.nextBatch
        /\ confirmButtons' = confirmButtons \cup
               createAutoAddKeyboard(nextBatch, r.ids)
        /\ last' = r.last
        /\ UNCHANGED <<shopButtons, cache, side>>

InitSaving ==
    /\ InitSide
    /\ event = NoEvent
    /\ authorizedUsers = {}
    /\ cache \in Caches
    /\ cacheFile = cache
    /\ items = EmptyStore
    /\ nextId = 1
    /\ nextBatch = 1
    /\ confirmButtons = {}
    /\ shopButtons = {}
    /\ last = Handled("start", Null, Null, "", EmptyStore, "", FALSE, Null, Null, 0)

\* the texts sent to the auto-add handler: the longest ones that start with
\* a line some cache resolves
SavingTexts == {t \in Texts : Len(t) = MaxLines /\ t[1] = <<"Lait">>}

NextSaving ==
    \/ \E resp \in AIResponses, failAt \in 0..MaxEntries :
            HandleTextMessageSaving(resp, failAt)
    \/ \E groceryText \in SavingTexts :
          \E resp \in AIResponsesTo(cache, groceryText), failAt \in 0..MaxLines :
             HandleTextMessageAutoAddSaving(groceryText, resp, failAt)

SpecSaving == InitSaving /\ [][NextSaving]_vars

(***************************************************************************)
(* Properties of the explicit-confirmation workflow (checked under Spec).  *)
(***************************************************************************)
sameName(a, b) == LOWER(a) = LOWER(b)

ActiveStatuses == {"pending", "selected", "not_found"}

\* the last handler was a confirm tap that reached confirmItemFromBatch for
\* an item then in status 'confirming'
ConfirmedAConfirmingItem ==
    /\ last.op = "confirm_item"
    /\ last.called
    /\ last.id \in DOMAIN last.pre
    /\ last.pre[last.id].status = "confirming"

\* the committed rows (not 'confirming') that had the name of the item of the
\* last request when the handler started
CommittedSameName ==
    {j \in DOMAIN last.pre \ {last.id} :
        /\ last.pre[j].status # "confirming"
        /\ sameName(last.pre[j].article, last.pre[last.id].article)}

\* C1: confirming a 'confirming' item whose name equals, case-insensitively,
\* the name of an existing item merges instead of duplicating: afterwards
\* exactly one row with that name remains, its quantity is the sum of the two
\* quantities, and the confirming row is gone.
C1_ConfirmMergesIntoExisting ==
    (ConfirmedAConfirmingItem /\ CommittedSameName # {}) =>
        LET name == last.pre[last.id].article
            rows == {j \in DOMAIN items : sameName(items[j].article, name)}
        IN  /\ last.id \notin DOMAIN items
            /\ Cardinality(rows) = 1
            /\ \A j \in rows :
                  \E e \in CommittedSameName :
                     items[j].quantity =
                        last.pre[e].quantity + last.pre[last.id].quantity

\* C2: at most one item per case-insensitive name has a status in
\* {pending, selected, not_found}.
C2_OneActiveItemPerName ==
    \A i, j \in DOMAIN items :
        (/\ i # j
         /\ items[i].status \in ActiveStatuses
         /\ items[j].status \in ActiveStatuses)
            => ~sameName(items[i].article, items[j].article)

\* C3: a second confirmation of the same item id right after a successful one
\* yields the same committed item and changes nothing in the store, on the
\* in-place path and on the merge path.
C3_ConfirmTwiceSameItem ==
    [][(/\ last.op = "confirm_item" /\ last.called /\ last.ack = "ok"
        /\ last'.op = "confirm_item"
        /\ last'.id = last.id /\ last'.batch = last.batch)
          => (/\ last'.ack = "ok"
              /\ last'.ret = last.ret
              /\ items' = items)]_vars

\* C4: a confirm request whose item does not exist, or carries another batch
\* id than the request, is answered not-found, leaves the store unchanged and
\* does not reach confirmItemFromBatch.
C4_StaleConfirmRejected ==
    (/\ last.op = "confirm_item"
     /\ \/ last.id \notin DOMAIN last.pre
        \/ last.pre[last.id].batch_id # last.batch)
        => (last.ack = "not_found" /\ items = last.pre /\ ~last.called)

\* a confirm tap arrived for an item that exists but now carries another batch
C4_Witness ==
    /\ last.op = "confirm_item"
    /\ last.id \in DOMAIN last.pre
    /\ last.pre[last.id].batch_id # last.batch

\* C5: cancelBatch(b) deletes exactly the items of batch b in status
\* 'confirming' and returns their number; every other row, the confirmed
\* items of b included, stays as it was, and no item of b is left 'confirming'.
C5_CancelDeletesOnlyUnconfirmed ==
    last.op = "cancel_batch" =>
        LET unconfirmed == {i \in DOMAIN last.pre :
                              /\ last.pre[i].batch_id = last.batch
                              /\ last.pre[i].status = "confirming"}
        IN  /\ DOMAIN items = DOMAIN last.pre \ unconfirmed
            /\ \A i \in DOMAIN items : items[i] = last.pre[i]
            /\ last.count = Cardinality(unconfirmed)
            /\ \A i \in DOMAIN items :
                  items[i].batch_id = last.batch => items[i].status # "confirming"

\* a batch was cancelled after one of its items had been confirmed: a row was
\* deleted and a confirmed row of the batch is still there
C5_Witness ==
    /\ last.op = "cancel_batch"
    /\ last.count >= 1
    /\ \E i \in DOMAIN items :
          items[i].batch_id = last.batch /\ items[i].status = "pending"

\* the tap cycle: pending -> selected -> found, not_found -> pending
NextInCycle(status) ==
    CASE status = "pending" -> "selected"
      [] status = "selected" -> "found"
      [] status = "not_found" -> "pending"
      [] OTHER -> "none"

\* C6: the status a handled tap writes is the successor, in the tap cycle, of
\* the status the item has in the store when the tap is handled.
C6_TapWritesSuccessor ==
    (/\ last.op = "item-status" /\ last.ack = "ok"
     /\ last.pre[last.id].status \in ActiveStatuses)
        => items[last.id].status = NextInCycle(last.pre[last.id].status)

\* C7: an unconfirmed item leaves 'confirming' only by being confirmed (to
\* 'pending') or deleted, and no shopping button is offered for it.
C7_ConfirmingLeavesOnlyByConfirm ==
    /\ \A i \in DOMAIN last.pre :
          last.pre[i].status = "confirming" =>
             \/ i \notin DOMAIN items
             \/ items[i].status = "confirming"
             \/ items[i].status = "pending" /\ last.op = "confirm_item"
    /\ \A b \in shopButtons :
          b[1] \in DOMAIN items => items[b[1]].status # "confirming"

\* C8: a merge into an existing item that is 'found' or 'not_found' leaves it
\* 'pending', so a later clearFound does not remove it.
C8_MergeResetsFound ==
    (/\ last.op = "confirm_item"
     /\ last.target # Null
     /\ last.pre[last.target].status \in {"found", "not_found"})
        => (/\ last.target \in DOMAIN items
            /\ items[last.target].status = "pending"
            /\ last.target \in DOMAIN clearFoundItems(items))

\* a confirmation merged into an item that was 'found'
C8_Witness ==
    /\ last.op = "confirm_item"
    /\ last.target # Null
    /\ last.pre[last.target].status = "found"

(***************************************************************************)
(* Properties of the auto-add workflow (checked under SpecAuto).           *)
(***************************************************************************)
\* C9: when parseItemsForConfirmation (cache, then AI) succeeds on a text of
\* K non-blank lines, the items created plus the parsed entries skipped for
\* a missing name or category number K, however many entries the AI returned.
C9_NoLineDropped ==
    (last.op = "message" /\ last.ack \in {"ok", "no_items"})
        => last.count + last.skipped = last.lines

\* C10: when the AI collaborator fails, the message is answered with the one
\* parse error and the store is what it was before, cache hits included.
C10_AIFailurePersistsNothing ==
    (last.op = "message" /\ last.ai = "failed")
        => (last.ack = "parse_error" /\ items = last.pre /\ last.count = 0)

\* the AI failed on a text of which the cache had resolved a line, while the
\* store already held an item
C10_Witness ==
    /\ last.op = "message"
    /\ last.ai = "failed"
    /\ last.hits >= 1
    /\ DOMAIN items # {}

(***************************************************************************)
(* Properties of the cache-then-AI parse (checked under SpecParse).        *)
(***************************************************************************)
\* the lines of the text of the last message that the cache resolves, by
\* canonical name or by variant, and those it does not
Resolves(line) ==
    \E key \in DOMAIN cache :
        \/ normalizeText(parseLineForProduct(line).product) = key
        \/ includes(cache[key].variants,
                    normalizeText(parseLineForProduct(line).product))

HitLines == SelectSeq(nonBlankLines(event.text), LAMBDA line : Resolves(line))

MissLines == SelectSeq(nonBlankLines(event.text), LAMBDA line : ~Resolves(line))

\* the entry of the cache that resolves a line
EntryFor(line) ==
    cache[CHOOSE key \in DOMAIN cache :
            \/ normalizeText(parseLineForProduct(line).product) = key
            \/ includes(cache[key].variants,
                        normalizeText(parseLineForProduct(line).product))]

C12_AIResultsFeedCache ==
    (/\ last.op = "message" /\ last.ack = "ok" /\ last.ai = "ok"
     /\ last.skipped = 0
     /\ last.count - last.hits = Len(MissLines))
        => \A k \in 1..Len(MissLines) : Resolves(MissLines[k])

(***************************************************************************)
(* Properties of the listing (checked under Spec).                         *)
(***************************************************************************)
\* how many times id i occurs in a sequence of ids
Occurrences(ids, i) == Cardinality({k \in DOMAIN ids : ids[k] = i})

\* how many times id i occurs in the groups, and under which keys
OccurrencesGrouped(grouped, i) ==
    Cardinality({<<c, k>> \in UNION {{c} \X DOMAIN grouped[c] : c \in DOMAIN grouped} :
                    grouped[c][k] = i})

\* C15: getAllItemsSorted partitions the store by status: a 'found' item is
\* in foundItems, once, and neither in activeItems nor in grouped; every other
\* item is once in activeItems and once in grouped, under its own category,
\* and not in foundItems.
C15_ListingPartitionsByStatus ==
    LET r == getAllItemsSorted(items) IN
    /\ \A i \in DOMAIN items :
          IF items[i].status = "found"
          THEN /\ Occurrences(r.foundItems, i) = 1
               /\ Occurrences(r.activeItems, i) = 0
               /\ OccurrencesGrouped(r.grouped, i) = 0
          ELSE /\ Occurrences(r.foundItems, i) = 0
               /\ Occurrences(r.activeItems, i) = 1
               /\ OccurrencesGrouped(r.grouped, i) = 1
               /\ items[i].category \in DOMAIN r.grouped
               /\ Occurrences(r.grouped[items[i].category], i) = 1
    /\ \A k \in DOMAIN r.foundItems : r.foundItems[k] \in DOMAIN items
    /\ \A k \in DOMAIN r.activeItems : r.activeItems[k] \in DOMAIN items

\* the shopping view was rendered from a store holding a found item and an
\* item still to be found
C15_Witness ==
    /\ last.op = "shop-category"
    /\ \E i, j \in DOMAIN items :
          /\ items[i].status = "found"
          /\ items[j].status # "found"
          /\ items[i].category = items[j].category

\* C16: a batch is write-once: once parseItemsForConfirmation has returned
\* batch id b, no later step adds an item id to the set of items tagged with
\* b; the set can only lose members.
C16_BatchIsWriteOnce ==
    [][\A b \in 1..MaxBatches :
          b < nextBatch => findByBatchId(items', b) \subseteq findByBatchId(items, b)]_vars

(***************************************************************************)
(* Properties of the edited list (checked under SpecEdit).                 *)
(***************************************************************************)
\* C13: every stored item has a quantity of at least 1, however it was
\* created (cache hit, AI entry with any quantity) and however it was edited
\* (editItem, the - / + buttons, the save button).
C13_QuantityAtLeastOne ==
    \A i \in DOMAIN items : items[i].quantity >= 1

EditOps == {"edit_item", "update_item", "update_qty", "save_edit"}

\* C14: editItem(itemId, category, quantity, note) overwrites the stored
\* item: when it succeeds, the item read back from the store has the given
\* category, quantity and note; it fails exactly when the item does not
\* exist, and then the store is unchanged.
C14_EditItemOverwrites ==
    last.op \in EditOps =>
        /\ last.ack = "error" <=> last.id \notin DOMAIN last.pre
        /\ last.ack = "error" => items = last.pre
        /\ last.ack = "ok" =>
              /\ last.id \in DOMAIN items
              /\ readItem(items, last.id).category = last.given.category
              /\ readItem(items, last.id).quantity = last.given.quantity
              /\ readItem(items, last.id).note = last.given.note

(***************************************************************************)
(* Properties of the auto-add workflow (checked under SpecAuto).           *)
(***************************************************************************)
\* C17: in the auto-add workflow cancelBatch(b) deletes every item tagged
\* with b whatever its status, returns the number of items it deleted and
\* leaves the items of the other batches as they were; cancelling b again
\* finds nothing to delete and returns 0.
C17_CancelDeletesWholeBatch ==
    last.op = "cancel_batch" =>
        /\ findByBatchId(items, last.batch) = {}
        /\ last.count = Cardinality(findByBatchId(last.pre, last.batch))
        /\ DOMAIN items = DOMAIN last.pre \ findByBatchId(last.pre, last.batch)
        /\ \A i \in DOMAIN items : items[i] = last.pre[i]

\* a cancellation deleted an item the shopper had moved out of 'pending'
\* and left the item of another batch in place
C17_Witness ==
    /\ last.op = "cancel_batch"
    /\ last.count >= 1
    /\ \E i \in findByBatchId(last.pre, last.batch) : last.pre[i].status # "pending"
    /\ items # EmptyStore

(***************************************************************************)
(* Properties of the sessions (checked under SpecSession).                 *)
(***************************************************************************)
\* the hour a stored expires_at denotes
Instant(ts) == ts[1] * HoursPerDay + ts[3]

\* C18: a session is never returned after its expiry: when findById (behind
\* getCallbackData and updateCallbackSession) returns a session, the instant
\* its expires_at denotes is still in the future, cleaned up or not.
C18_NoSessionAfterExpiry ==
    (sessionLast.op \in {"get", "update"} /\ sessionLast.found)
        => Instant(sessionLast.expires_at) > sessionLast.at

(***************************************************************************)
(* Properties of the acknowledgement (checked under SpecCallback).         *)
(***************************************************************************)
\* C19: every callback query handleCallbackQuery receives is eventually
\* answered at least once, whatever path its handling takes (success, unknown
\* action, failed check, thrown error), the answer itself never failing.
C19_EveryQueryAnswered ==
    \A n \in 1..MaxQueries :
        (query.received = n /\ Running)
            ~> (query.received = n /\ query.answers >= 1)

\* the handling of an item-status query has ended: the view handler it
\* called has answered the query, and so has handleItemStatus
C19_Witness ==
    /\ query.received >= 1
    /\ ~Running
    /\ query.action = "item-status"
    /\ query.answers = 2

(***************************************************************************)
(* Properties of the authorization (checked under SpecAuth).               *)
(***************************************************************************)
\* the sender of the update is on the configured list
OnList == event.user.username \in authorizedUsers
              \/ event.user.first_name \in authorizedUsers

\* C20: with a non-empty list of authorized users, the handling of a text
\* message or button press whose sender is not on the list leaves the item
\* store as it was; with an empty list no sender is refused.
C20_UnauthorizedChangesNothing ==
    /\ (/\ authorizedUsers # {}
        /\ last.op \notin {"start", "received"}
        /\ ~OnList)
          => items = last.pre
    /\ authorizedUsers = {} => ~event.refused

(***************************************************************************)
(* Properties of parseLineForProduct (checked under SpecLine).             *)
(***************************************************************************)
QuantityFirstForm(line) == Len(line) >= 2 /\ line[1] \in DigitTokens

QuantityLastForm(line) == Len(line) >= 2 /\ line[Len(line)] \in DigitTokens

\* C21: a line of the form digits, whitespace, text yields that integer and
\* the text; otherwise a line of the form text, whitespace, digits yields
\* that integer and the text; any other line yields quantity 1 and the
\* whole trimmed line; a line of both forms is read with the leading digits
C21_LineForms ==
    last.op = "parseLineForProduct" =>
        LET line == event.text
            parsedLine == last.parsedLine
        IN  /\ QuantityFirstForm(line) =>
                /\ parsedLine.quantity = parseInt(line[1])
                /\ parsedLine.product = SubSeq(line, 2, Len(line))
            /\ (~QuantityFirstForm(line) /\ QuantityLastForm(line)) =>
                /\ parsedLine.quantity = parseInt(line[Len(line)])
                /\ parsedLine.product = SubSeq(line, 1, Len(line) - 1)
            /\ (~QuantityFirstForm(line) /\ ~QuantityLastForm(line)) =>
                /\ parsedLine.quantity = 1
                /\ parsedLine.product = line

\* a line of both forms has been parsed, and the leading digits won
C21_Witness ==
    /\ last.op = "parseLineForProduct"
    /\ event.text = <<"2", "pain", "0">>
    /\ last.parsedLine = [quantity |-> 2, product |-> <<"pain", "0">>]

(***************************************************************************)
(* Entries that lack a field (checked under SpecParse).                    *)
(***************************************************************************)
\* the entries of an answer that have a name and a category once trimmed
CompleteEntries(resp) ==
    SelectSeq(resp.entries, LAMBDA e : ~MissingFields(ValidatedItem(e)))

\* C22: an entry that lacks a name or a category is dropped without failing
\* the batch: whenever parseItemsForConfirmation gets an array from the AI,
\* it succeeds and persists exactly the cache hits and the entries of the
\* array that have both fields
C22_IncompleteEntryDropped ==
    [][\A resp \in AIResponsesTo(cache, event.text) :
          (resp.kind = "array" /\ ParseItemsForConfirmation(resp)) =>
              /\ last'.ack # "parse_error"
              /\ Cardinality(DOMAIN items') - Cardinality(DOMAIN items)
                     = last'.hits + Len(CompleteEntries(resp))]_vars

(***************************************************************************)
(* The statuses a shopper can give an item (checked under Spec).           *)
(***************************************************************************)
\* the statuses the buttons rendered for item i ask for, in a store
ClickTargets(store, i) ==
    {b[2] : b \in {x \in createCategoryShoppingKeyboard(store, store[i].category) :
                      x[1] = i}}

\* the statuses item i can be brought to from the statuses S by tapping,
\* each tap writing what the button rendered for the item asks for
RECURSIVE StatusesByClicks(_, _, _)
StatusesByClicks(store, i, S) ==
    LET more == S \cup UNION {ClickTargets(updateStatus(store, i, s), i) : s \in S}
    IN  IF more = S THEN S ELSE StatusesByClicks(store, i, more)

\* C23: from 'pending' there is a sequence of clicks that brings an item to
\* 'selected', one to 'found' and one to 'not_found'
C23_EveryStatusByClicks ==
    \A i \in DOMAIN items :
        items[i].status = "pending" =>
            {"selected", "found", "not_found"}
                \subseteq StatusesByClicks(items, i, {"pending"})

\* what holds instead: no handler ever stores 'not_found'
C23_NeverNotFound == \A i \in DOMAIN items : items[i].status # "not_found"

\* a pending item was tapped to 'selected' and then to 'found'
C23_FoundByClicks ==
    /\ last.op = "item-status"
    /\ last.ack = "ok"
    /\ last.status = "found"
    /\ last.pre[last.id].status = "selected"
    /\ items[last.id].status = "found"

(***************************************************************************)
(* The categories of the stored items (checked under SpecCategory).        *)
(***************************************************************************)
\* C24: in every reachable store the category of every item is one of the
\* fixed category list or the 'Unknown' sentinel, for items created from
\* the AI's answer and after the update_cat, upd_cat and update_item
\* callbacks
C24_CategoryOfTheList ==
    \A i \in DOMAIN items :
        items[i].category \in Categories \cup {UnknownCategory}

\* what the index-based callback and the edit interface do keep: they write
\* a member of the list
C24_ButtonsWriteListed ==
    (last.op \in {"upd_cat", "update_item"} /\ last.ack = "ok") =>
        items[last.id].category \in Categories

(***************************************************************************)
(* Interrupted and concurrent confirmations (checked under                 *)
(* SpecConfirmSteps).                                                      *)
(***************************************************************************)
Ended(c) == c.result \in {"returned", "threw"}

\* the store one uninterrupted confirmation of the item leaves
AfterOneConfirm(c) == confirmItemFromBatch(c.pre, c.itemId).store

\* C25: a confirmation interrupted after a store write (between the save of
\* the merged row, a committed item of the list, and the deletion of the
\* confirming row) can be resumed: the confirm issued again for the same
\* item ends in the store of one uninterrupted confirmation
C25_InterruptedConfirmResumes ==
    (/\ Len(calls) = 2
     /\ calls[1].result = "interrupted" /\ calls[1].pc = "delete"
     /\ calls[1].pre[calls[1].existingId].status = "pending"
     /\ calls[2].alone /\ calls[2].itemId = calls[1].itemId
     /\ Ended(calls[2]))
        => items = AfterOneConfirm(calls[1])

\* C26: for every interleaving of the store operations of two
\* confirmItemFromBatch calls for the same item id, the final store is the
\* store after a single call
C26_DuplicateTapsSafe ==
    (/\ Len(calls) = 2
     /\ calls[2].itemId = calls[1].itemId
     /\ Ended(calls[1]) /\ Ended(calls[2]))
        => items = AfterOneConfirm(calls[1])

\* two calls for the same item ran interleaved, both went down the merge
\* path and both have ended
C26_Witness ==
    /\ Len(calls) = 2
    /\ calls[2].itemId = calls[1].itemId
    /\ ~calls[2].alone
    /\ calls[1].existingId # Null /\ calls[2].existingId # Null
    /\ calls[1].result = "returned" /\ calls[2].result = "returned"

\* two calls for items of different batches merged into the same row, each
\* having read it before the other saved it
ReadTheSameRow ==
    /\ Len(calls) = 2
    /\ calls[1].itemId # calls[2].itemId
    /\ calls[1].result = "returned" /\ calls[2].result = "returned"
    /\ calls[1].existingId # Null
    /\ calls[1].existingId = calls[2].existingId
    /\ calls[1].existingItem.quantity - calls[1].tempItem.quantity
           = calls[2].existingItem.quantity - calls[2].tempItem.quantity

\* C27: the race of two concurrent confirmations of the same name against
\* one existing item is there: when both calls read the existing row before
\* either saved it, the surviving quantity is the one the later save wrote,
\* not the sum of the existing and both incoming quantities, although both
\* confirming rows are gone
C27_LostUpdateOfTheRace ==
    ReadTheSameRow =>
        LET e == calls[1].existingId
            sum == calls[1].existingItem.quantity + calls[2].tempItem.quantity
        IN  /\ calls[1].itemId \notin DOMAIN items
            /\ calls[2].itemId \notin DOMAIN items
            /\ items[e].quantity
                   \in {calls[1].existingItem.quantity, calls[2].existingItem.quantity}
            /\ items[e].quantity < sum

\* the lost update: item 1 had 1, items 2 and 3 brought 2 and 1, and the
\* survivor holds less than 4
C27_Witness ==
    /\ ReadTheSameRow
    /\ calls[1].pre = calls[2].pre
    /\ DOMAIN items = {1}
    /\ items[1].quantity <
           calls[1].pre[1].quantity + calls[1].pre[2].quantity
               + calls[1].pre[3].quantity

(***************************************************************************)
(* What a confirmation merges into, and the isolation of batches (checked  *)
(* under Spec).                                                            *)
(***************************************************************************)
\* C28: the item confirmItemFromBatch merges into is another item than the
\* one being confirmed and never a 'confirming' item of another batch in
\* flight, so the item a successful confirmation returns has a committed
\* status
C28_MergeTargetIsCommitted ==
    (ConfirmedAConfirmingItem /\ last.ack = "ok") =>
        /\ last.target # Null =>
              /\ last.target # last.id
              /\ last.pre[last.target].status # "confirming"
        /\ items[last.ret].status # "confirming"

\* the half that holds: a merge never targets the item being confirmed
C28_TargetIsAnotherItem ==
    (ConfirmedAConfirmingItem /\ last.target # Null) => last.target # last.id

\* the unconfirmed items of the other batches when the last handler started
UnconfirmedOfOtherBatches ==
    {i \in DOMAIN last.pre :
        last.pre[i].status = "confirming" /\ last.pre[i].batch_id # last.batch}

\* C29: batches are isolated: a confirm or cancel operation for one batch
\* neither deletes nor re-tags nor changes the quantity of a still
\* unconfirmed item of another batch, which stays confirmable and
\* cancelable through the buttons of its own batch
C29_BatchesAreIsolated ==
    last.op \in {"confirm_item", "cancel_batch"} =>
        \A i \in UnconfirmedOfOtherBatches :
            /\ i \in DOMAIN items
            /\ items[i] = last.pre[i]
            /\ belongsToBatch(items, last.pre[i].batch_id, i)

\* the half that holds: cancelling a batch leaves the other batches alone
C29_CancelIsIsolated ==
    last.op = "cancel_batch" =>
        \A i \in UnconfirmedOfOtherBatches :
            i \in DOMAIN items /\ items[i] = last.pre[i]

(***************************************************************************)
(* clearSelection among item-status taps (checked under SpecClearSteps).   *)
(***************************************************************************)
\* C30: clearSelection changes only 'selected' items under every
\* interleaving with item-status taps: a turn of its loop never writes
\* 'pending' over an item that a tap has moved from 'selected' to 'found'
\* since the call read it
C30_ClearChangesOnlySelected ==
    [][\A k \in DOMAIN calls :
          ClearUpdateStep(k) =>
              LET item == Head(calls[k].selectedItems)
              IN  item \in DOMAIN items => items[item].status = "selected"]_vars

ListedBefore(ids, i, j) ==
    \E p, q \in DOMAIN ids : p < q /\ ids[p] = i /\ ids[q] = j

\* C32: within a category getAllItemsSorted lists the items in creation
\* order: of two items of one category that were created by different
\* messages, the one created first is listed first
C32_CreationOrderInCategory ==
    LET grouped == getAllItemsSorted(items).grouped IN
    \A category \in DOMAIN grouped :
        \A i, j \in DOMAIN items :
            (/\ ListedBefore(grouped[category], i, j)
             /\ items[i].batch_id # items[j].batch_id)
                => i < j

\* the half that holds: a status change other than to or from 'found' never
\* changes the relative order of two listed items
C32_StatusChangeKeepsOrder ==
    [][(/\ last'.op = "item-status"
        /\ last'.pre = items
        /\ last'.status # "found"
        /\ \A i \in DOMAIN items : items[i].status # "found")
          => getAllItemsSorted(items').activeItems
                 = getAllItemsSorted(items).activeItems]_vars

(***************************************************************************)
(* The view rendered after a press (checked under SpecNav).                *)
(***************************************************************************)
\* the category still held an item that is not found when the handler was
\* through with the store
HoldsActiveItem(category) ==
    \E i \in DOMAIN last.store :
        last.store[i].category = category /\ last.store[i].status # "found"

C33_StaysInCategory ==
    /\ last.op = "item-status"
    /\ last.rendered
    /\ last.from = "Boulangerie"
    /\ last.view = "Boulangerie"

(***************************************************************************)
(* Properties of the product cache (checked under SpecCache).              *)
(***************************************************************************)
\* what the lookup is said to answer in a cache: the entry at the key when
\* the normalized text is a key, else the first entry in the order of the
\* cache whose variants hold the text, else null
SaidToAnswer(c, normalized) ==
    IF normalized \in DOMAIN c THEN {normalized}
    ELSE {key \in DOMAIN c :
            /\ includes(c[key].variants, normalized)
            /\ \A other \in DOMAIN c :
                includes(c[other].variants, normalized)
                    => c[key].position <= c[other].position}

\* C34: findProduct answers with the entry at the key when the normalized
\* text is a canonical key, even when another entry lists the text as a
\* variant; otherwise with the first entry, in cache order, whose variants
\* contain the text; and with null when there is none.
C34_FindProductAnswer ==
    last.op = "findProduct"
        => last.found = SaidToAnswer(last.before, normalizeText(last.correctName))

\* C34 for the names Object.prototype does not answer: the lookup is the
\* one stated, and no lookup changes the cache or the document
C34_OwnNamesAnswered ==
    last.op = "findProduct"
        => /\ cache = last.before
           /\ normalizeText(last.correctName) \notin ObjectPrototype
                => last.found = SaidToAnswer(last.before,
                                             normalizeText(last.correctName))

\* a key that another, earlier entry lists as a variant was looked up
C34_KeyBeforeVariant ==
    /\ last.op = "findProduct"
    /\ normalizeText(last.correctName) \in DOMAIN last.before
    /\ \E other \in DOMAIN last.before :
        /\ other # normalizeText(last.correctName)
        /\ includes(last.before[other].variants, normalizeText(last.correctName))
    /\ last.found = {normalizeText(last.correctName)}

\* the last call was addProductVariant with a variant that differs from the
\* canonical name, neither of them a name Object.prototype answers
AddedVariant ==
    /\ last.op = "addProductVariant"
    /\ normalizeText(last.variant) # normalizeText(last.correctName)
    /\ normalizeText(last.variant) \notin ObjectPrototype
    /\ normalizeText(last.correctName) \notin ObjectPrototype

\* C35: after addProductVariant(c, cat, v) with the normalized v different
\* from the normalized c, findProduct(v) returns the entry of c, and that
\* entry has category cat, whatever the cache held before the call.
C35_RoundTrip ==
    AddedVariant
        => /\ findProduct(cache, last.variant) = {normalizeText(last.correctName)}
           /\ cache[normalizeText(last.correctName)].category = last.category

\* C35 where the variant was, before the call, neither a key of the cache
\* nor a variant of an entry created before the entry of c: there the round
\* trip holds, and the category is the one given in every case
C35_RoundTripOfFreeVariant ==
    AddedVariant
        => /\ cache[normalizeText(last.correctName)].category = last.category
           /\ includes(cache[normalizeText(last.correctName)].variants,
                       normalizeText(last.variant))
           /\ (/\ normalizeText(last.variant) \notin DOMAIN last.before
               /\ \A key \in holders(last.before, normalizeText(last.variant)) :
                    cache[key].position
                        >= cache[normalizeText(last.correctName)].position)
                => findProduct(cache, last.variant)
                       = {normalizeText(last.correctName)}

\* the variant given is the canonical key of another entry, and the lookup
\* of it answers with that other entry
C35_VariantIsAnotherKey ==
    /\ AddedVariant
    /\ normalizeText(last.variant) \in DOMAIN last.before
    /\ findProduct(cache, last.variant) = {normalizeText(last.variant)}

\* the variant given is listed by an earlier entry, and the lookup of it
\* answers with that earlier entry
C35_VariantOfEarlierEntry ==
    /\ AddedVariant
    /\ normalizeText(last.variant) \notin DOMAIN cache
    /\ findProduct(cache, last.variant) # {normalizeText(last.correctName)}

\* C36: whenever addProductVariant completes normally after changing the
\* cache, the persisted document equals the cache in memory; a write that
\* fails is reported to the caller instead of a normal return.
C36_DurableWhenReturned ==
    (/\ last.op = "addProductVariant"
     /\ last.result = "returned"
     /\ cache # last.before)
        => cacheFile = cache

\* C36 where fs.writeFile succeeds: the document is the cache in memory
C36_WrittenDocumentIsTheCache ==
    (last.op = "addProductVariant" /\ last.written) => cacheFile = cache

\* a call changed the cache, its write failed and it returned normally
C36_FailedWriteReturns ==
    /\ last.op = "addProductVariant"
    /\ cache # last.before
    /\ ~last.written
    /\ last.result = "returned"
    /\ cacheFile # cache

\* calling addProductVariant again with the arguments of a call leaves the
\* cache the first call left
Idempotent(c) ==
    \A correctName \in CacheNames, category \in CacheCategories,
       variant \in CacheNames :
        LET once == addProductVariant(c, correctName, category, variant).cache
        IN  addProductVariant(once, correctName, category, variant).cache = once

NoVariantTwice(c) ==
    \A key \in DOMAIN c :
        \A i, j \in DOMAIN c[key].variants :
            c[key].variants[i] = c[key].variants[j] => i = j

\* C37: addProductVariant changes neither the cache nor the persisted
\* document, and creates no entry, when the normalized variant equals the
\* normalized canonical name; otherwise a second call with the same
\* arguments leaves the cache as the first call left it; and no variant
\* list ever holds the same variant twice.
C37_NoOpAndIdempotent ==
    /\ [](Idempotent(cache) /\ NoVariantTwice(cache))
    /\ [][(/\ last'.op = "addProductVariant"
           /\ normalizeText(last'.variant) = normalizeText(last'.correctName))
            => (cache' = cache /\ cacheFile' = cacheFile)]_vars

\* a call whose variant is the canonical name in another case found a
\* cache that differs from its document, and left both
C37_Witness ==
    /\ last.op = "addProductVariant"
    /\ last.variant # last.correctName
    /\ normalizeText(last.variant) = normalizeText(last.correctName)
    /\ last.before # EmptyCache
    /\ cache = last.before
    /\ cacheFile # cache

\* a call with a variant that its entry already lists left the cache
C37_RepeatedCall ==
    /\ last.op = "addProductVariant"
    /\ normalizeText(last.variant) # normalizeText(last.correctName)
    /\ last.saves
    /\ cache = last.before
    /\ includes(cache[normalizeText(last.correctName)].variants,
                normalizeText(last.variant))

(***************************************************************************)
(* Properties of the list built from cache and AI (checked under           *)
(* SpecCombine).                                                           *)
(***************************************************************************)
\* the entries the AI returned for the miss lines, as validated
AIResults ==
    IF MissLines = <<>> THEN <<>>
    ELSE [k \in DOMAIN last.resp.entries |-> ValidatedItem(last.resp.entries[k])]

C39_FailedSubmissionLeavesStore ==
    (last.op = "message" /\ last.ack = "parse_error") => items = last.pre

\* C39 where the error is the AI collaborator's: nothing has been saved
C39_FailedParseLeavesStore ==
    (last.op = "message" /\ last.ack = "parse_error" /\ last.ai = "failed")
        => items = last.pre

\* the second save of a batch failed, the user was shown the parse error
\* and the first item of the batch is in the store
C39_PartialBatchRemains ==
    /\ last.op = "message"
    /\ last.ack = "parse_error"
    /\ last.failAt = 2
    /\ DOMAIN items # DOMAIN last.pre

(***************************************************************************)
(* The frame of confirmItemFromBatch (checked under Spec).                 *)
(***************************************************************************)
\* what the service does with an item that is not 'confirming': the store
\* is left, a 'pending' item is returned and any other status is an error
LeavesUnconfirming(store, itemId, out) ==
    /\ out.store = store
    /\ store[itemId].status = "pending" => (~out.threw /\ out.ret = itemId)
    /\ store[itemId].status \in {"selected", "found", "not_found"} => out.threw

\* C40: confirmItemFromBatch changes the store only when the item is
\* 'confirming': a 'pending' item is returned as it is, a 'selected',
\* 'found' or 'not_found' item is an error, and no row changes in either
\* case.
C40_OnlyConfirmingIsChanged ==
    /\ \A itemId \in DOMAIN items :
        items[itemId].status # "confirming"
            => LeavesUnconfirming(items, itemId, confirmItemFromBatch(items, itemId))
    /\ (/\ last.op = "confirm_item"
        /\ last.called
        /\ last.pre[last.id].status # "confirming")
            => /\ items = last.pre
               /\ last.pre[last.id].status = "pending"
                    => (last.ack = "ok" /\ last.ret = last.id)
               /\ last.pre[last.id].status # "pending" => last.ack = "error"

\* a confirm button was tapped for an item that is being shopped, the
\* service was called and failed, and the store is the one before the tap
C40_Witness ==
    /\ last.op = "confirm_item"
    /\ last.called
    /\ last.pre[last.id].status \in {"selected", "found", "not_found"}
    /\ last.ack = "error"
    /\ items = last.pre

\* a confirm button was tapped for an item already on the list, which was
\* returned as it is
C40_PendingReturned ==
    /\ last.op = "confirm_item"
    /\ last.called
    /\ last.pre[last.id].status = "pending"
    /\ last.ret = last.id
    /\ items = last.pre

====
